---- MODULE Spec2Model ----
(***************************************************************************)
(* Verification development for k-totani/spec-verify.                      *)
(*                                                                         *)
(* Part 1: the verification orchestrator (internal/verifier/verifier.go):  *)
(* VerifyAll fans one goroutine out per discovered spec file, admits them  *)
(* through a buffered-channel semaphore, collects their Results from a     *)
(* buffered channel and folds them into a Summary.                         *)
(***************************************************************************)
EXTENDS Integers, Sequences, FiniteSets, TLC

(***************************************************************************)
(* Bounds of the model.                                                    *)
(***************************************************************************)
\* Largest number of entries filepath.Walk visits under the searched directory.
MaxEntries == 2
\* Largest configured Options.Concurrency explored (0 .. MaxConcurrency).
MaxConcurrency == 2

(***************************************************************************)
(* Rationals: Summary.AverageMatch is a float64 quotient of two small      *)
(* non-negative ints.  For such operands IEEE division is injective on the *)
(* quotients and order-preserving against integer thresholds, so the value *)
(* is modelled as the reduced fraction [num, den].                         *)
(***************************************************************************)
RECURSIVE GCD(_, _)
GCD(a, b) == IF b = 0 THEN a ELSE GCD(b, a % b)

Rat(n, d) == LET g == GCD(n, d) IN [num |-> n \div g, den |-> d \div g]

\* The float64 zero value of a freshly built Summary.
RatZero == [num |-> 0, den |-> 1]

\* r >= float64(t)
RatGE(r, t) == r.num >= t * r.den

(***************************************************************************)
(* Inputs.                                                                 *)
(***************************************************************************)
\* What filepath.Walk meets: the searched directory (specsDir, or
\* specsDir/specType) is there, is absent, or cannot be read; each entry under
\* it is a .md file, another file, a directory, an entry whose lstat fails, or
\* an entry removed between the directory read and its lstat.
DirStates == {"ok", "missing", "fault"}
EntryKinds == {"md", "other", "dir", "unreadable", "vanished"}

RECURSIVE SeqsUpTo(_, _)
SeqsUpTo(S, n) ==
    IF n = 0 THEN {<<>>}
    ELSE LET shorter == SeqsUpTo(S, n - 1)
         IN  shorter \cup {Append(s, x) : s \in {t \in shorter : Len(t) = n - 1}, x \in S}

Listings == SeqsUpTo(EntryKinds, MaxEntries)

\* The Judge's reply for one spec: a provider/network error, or a verdict.
JudgeError == -1
Verdicts == {50, 80}
JudgeReplies == {JudgeError} \cup Verdicts

\* Per spec file: whether os.ReadFile succeeds in ParseSpec, how many code
\* files FindCodeFiles resolves, and what the Judge answers for it.
SpecInputs ==
    {[readable |-> FALSE, codeFiles |-> 0, judge |-> JudgeError]}
      \cup {[readable |-> TRUE, codeFiles |-> 0, judge |-> JudgeError]}
      \cup {[readable |-> TRUE, codeFiles |-> 1, judge |-> j] : j \in JudgeReplies}

\* The worked example of the specification: five specs with code, verdicts
\* 90, 40, 85, 10, 60.
ExampleVerdicts == <<90, 40, 85, 10, 60>>
ExampleListing == [i \in 1..Len(ExampleVerdicts) |-> "md"]
ExampleEnv ==
    [i \in 1..Len(ExampleVerdicts) |->
        [readable |-> TRUE, codeFiles |-> 1, judge |-> ExampleVerdicts[i]]]

(***************************************************************************)
(* State.                                                                  *)
(***************************************************************************)
VARIABLES
    Concurrency,    \* v.config.Options.Concurrency
    ctxCancelled,   \* the caller's ctx is done
    mainPc,         \* VerifyAll: "find", "spawn", "collect", "returned"
    walkErr,        \* err of filepath.Walk in FindSpecFiles: "", "notexist", "fault"
    specFiles,      \* specFiles, the discovered spec files in walk order
    env,            \* the inputs of each spec file (SpecInputs)
    spawned,        \* how many iterations of the spawn loop have run
    pc,             \* per worker goroutine: idle, acquire, verify, judge, send, exit, done
    result,         \* per worker: the Result under construction in verifyOne
    judgeCalls,     \* per worker: how many times provider.Verify was invoked
    semaphore,      \* number of tokens in the semaphore channel
    wg,             \* the WaitGroup counter
    resultChan,     \* buffered contents of resultChan
    chanClosed,     \* resultChan is closed
    results,        \* the slice VerifyAll collects into
    ret,            \* what VerifyAll returned: [summary: <<>> or <<Summary>>, err]
    batch,          \* splitIntoBatches: its arguments, loop position and locals
    paths,          \* pathsMatch / NormalizePath: the arguments and what was returned
    cov,            \* CalculateCoverage: its inputs, loop position, maps and report
    ext             \* ExtractEndpoints: the sources, loop positions, Judge calls, result

verifierVars == <<Concurrency, ctxCancelled, mainPc, walkErr, specFiles, env, spawned, pc,
                  result, judgeCalls, semaphore, wg, resultChan, chanClosed, results, ret>>

aux == <<batch, paths, cov, ext>>

vars == <<verifierVars, aux>>

Workers == 1..Len(specFiles)

NoResult == [SpecFile |-> 0, CodeFiles |-> 0, Verification |-> <<>>, Error |-> ""]
NoReturn == [summary |-> <<>>, err |-> ""]

\* The other operations are not running.
NoBatch == [pc |-> "idle"]
NoPaths == [pc |-> "idle"]
NoCoverage == [pc |-> "idle"]
NoExtract == [pc |-> "idle"]

(***************************************************************************)
(* parser.FindSpecFiles                                                    *)
(***************************************************************************)
\* The walk callback: the first entry whose lstat fails ends the walk with its
\* error; .md files are appended in walk order.  Spec files are named by
\* their rank among the .md files.
RECURSIVE WalkEntries(_, _, _)
WalkEntries(listing, i, files) ==
    IF i > Len(listing) THEN [files |-> files, err |-> ""]
    ELSE IF listing[i] = "unreadable" THEN [files |-> files, err |-> "fault"]
    ELSE IF listing[i] = "vanished" THEN [files |-> files, err |-> "notexist"]
    ELSE IF listing[i] = "md"
         THEN WalkEntries(listing, i + 1, Append(files, Len(files) + 1))
         ELSE WalkEntries(listing, i + 1, files)

Walk(dir, listing) ==
    CASE dir = "missing" -> [files |-> <<>>, err |-> "notexist"]
      [] dir = "fault"   -> [files |-> <<>>, err |-> "fault"]
      [] OTHER           -> WalkEntries(listing, 1, <<>>)

\* Mutant: a missing directory is reported as an error like any other fault.
FindSpecFilesStrict(dir, listing) ==
    LET w == Walk(dir, listing)
    IN  IF w.err # ""
        THEN [files |-> <<>>, err |-> "failed to walk specs directory", walkErr |-> w.err]
        ELSE [files |-> w.files, err |-> "", walkErr |-> ""]

\* [files, err, walkErr]: a missing directory is an empty list and no error,
\* any other walk error is returned.
FindSpecFiles(dir, listing) ==
    LET w == Walk(dir, listing)
    IN  IF w.err # ""
        THEN IF w.err = "notexist"
             THEN [files |-> <<>>, err |-> "", walkErr |-> w.err]
             ELSE [files |-> <<>>, err |-> "failed to walk specs directory", walkErr |-> w.err]
        ELSE [files |-> w.files, err |-> "", walkErr |-> ""]

(***************************************************************************)
(* Verifier.verifyOne, in its two halves around the Judge call             *)
(***************************************************************************)
\* Mutant: no fast path, the Judge is asked about an empty set of code files.
verifyOneLocalNoFastPath(sf, in) ==
    LET r0 == [NoResult EXCEPT !.SpecFile = sf]
    IN  IF ~in.readable
        THEN [result |-> [r0 EXCEPT !.Error = "failed to parse spec"], callJudge |-> FALSE]
        ELSE [result |-> [r0 EXCEPT !.CodeFiles = in.codeFiles], callJudge |-> TRUE]

\* Up to the call of provider.Verify: [result, callJudge].
verifyOneLocal(sf, in) ==
    LET r0 == [NoResult EXCEPT !.SpecFile = sf]
    IN  IF ~in.readable
        THEN [result |-> [r0 EXCEPT !.Error = "failed to parse spec"], callJudge |-> FALSE]
        ELSE LET r1 == [r0 EXCEPT !.CodeFiles = in.codeFiles]
             IN  IF in.codeFiles = 0
                 THEN [result |-> [r1 EXCEPT !.Verification = <<[MatchPercentage |-> 0]>>],
                       callJudge |-> FALSE]
                 ELSE [result |-> r1, callJudge |-> TRUE]

\* After provider.Verify returned reply.
verifyOneJudged(r, reply) ==
    IF reply = JudgeError
    THEN [r EXCEPT !.Error = "failed to verify with AI"]
    ELSE [r EXCEPT !.Verification = <<[MatchPercentage |-> reply]>>]

\* The providers build their request with http.NewRequestWithContext: a
\* cancelled ctx fails the call, otherwise the Judge gives its reply.
ProviderVerify(cancelled, in) == IF cancelled THEN JudgeError ELSE in.judge

(***************************************************************************)
(* Verifier.calculateSummary and Summary.IsPassing                         *)
(***************************************************************************)
Verified(r) == r.Error = "" /\ r.Verification # <<>>

\* The loop of calculateSummary with the high and low percentages as
\* parameters, for the mutants below.
RECURSIVE SummaryLoopWith(_, _, _, _, _)
SummaryLoopWith(rs, i, acc, highs, lows) ==
    IF i > Len(rs) THEN acc
    ELSE IF Verified(rs[i])
         THEN LET m == rs[i].Verification[1].MatchPercentage
              IN  SummaryLoopWith(rs, i + 1,
                    [acc EXCEPT !.VerifiedSpecs = @ + 1,
                                !.totalMatch = @ + m,
                                !.HighMatchCount = IF m \in highs THEN @ + 1 ELSE @,
                                !.LowMatchCount =
                                    IF m \notin highs /\ m \in lows THEN @ + 1 ELSE @],
                    highs, lows)
         ELSE SummaryLoopWith(rs, i + 1, acc, highs, lows)

SummaryOf(rs, acc, divisor) ==
    [TotalSpecs     |-> Len(rs),
     VerifiedSpecs  |-> acc.VerifiedSpecs,
     AverageMatch   |-> IF divisor > 0 THEN Rat(acc.totalMatch, divisor) ELSE RatZero,
     HighMatchCount |-> acc.HighMatchCount,
     LowMatchCount  |-> acc.LowMatchCount,
     Results        |-> rs]

ZeroAcc == [VerifiedSpecs |-> 0, totalMatch |-> 0, HighMatchCount |-> 0, LowMatchCount |-> 0]

RECURSIVE SummaryLoop(_, _, _)
SummaryLoop(rs, i, acc) ==
    IF i > Len(rs) THEN acc
    ELSE IF Verified(rs[i])
         THEN LET m == rs[i].Verification[1].MatchPercentage
              IN  SummaryLoop(rs, i + 1,
                    [acc EXCEPT !.VerifiedSpecs = @ + 1,
                                !.totalMatch = @ + m,
                                !.HighMatchCount = IF m >= 80 THEN @ + 1 ELSE @,
                                !.LowMatchCount = IF m < 80 /\ m < 50 THEN @ + 1 ELSE @])
         ELSE SummaryLoop(rs, i + 1, acc)

\* Mutant: the average is taken over all Results, failed ones included.
calculateSummaryOverTotal(rs) ==
    LET acc == SummaryLoopWith(rs, 1, ZeroAcc, 80..100, 0..49)
    IN  SummaryOf(rs, acc, Len(rs))

\* Mutant: the comparisons are strict on the wrong side (> 80, <= 50).
calculateSummaryOffByOne(rs) ==
    LET acc == SummaryLoopWith(rs, 1, ZeroAcc, 81..100, 0..50)
    IN  SummaryOf(rs, acc, acc.VerifiedSpecs)

\* Mutant: a running average, folded pairwise in collection order.
RECURSIVE RunningAverage(_, _, _)
RunningAverage(rs, i, avg) ==
    IF i > Len(rs) THEN avg
    ELSE IF rs[i].Error = "" /\ rs[i].Verification # <<>>
         THEN LET m == rs[i].Verification[1].MatchPercentage
              IN  RunningAverage(rs, i + 1,
                    IF avg = <<>> THEN <<Rat(m, 1)>>
                    ELSE <<Rat(avg[1].num + m * avg[1].den, 2 * avg[1].den)>>)
         ELSE RunningAverage(rs, i + 1, avg)

calculateSummaryRunning(rs) ==
    LET acc == SummaryLoopWith(rs, 1, ZeroAcc, 80..100, 0..49)
        avg == RunningAverage(rs, 1, <<>>)
    IN  [SummaryOf(rs, acc, acc.VerifiedSpecs) EXCEPT
            !.AverageMatch = IF avg = <<>> THEN RatZero ELSE avg[1]]

\* Mutant: Results that resolved no code file are left out of the Summary's
\* counts and average.
calculateSummarySkipNoCode(rs) ==
    LET kept == SelectSeq(rs, LAMBDA r : r.CodeFiles > 0)
        acc == SummaryLoopWith(kept, 1, ZeroAcc, 80..100, 0..49)
    IN  SummaryOf(rs, acc, acc.VerifiedSpecs)

calculateSummary(rs) ==
    LET acc == SummaryLoop(rs, 1,
                 [VerifiedSpecs |-> 0, totalMatch |-> 0,
                  HighMatchCount |-> 0, LowMatchCount |-> 0])
    IN  [TotalSpecs     |-> Len(rs),
         VerifiedSpecs  |-> acc.VerifiedSpecs,
         AverageMatch   |-> IF acc.VerifiedSpecs > 0
                            THEN Rat(acc.totalMatch, acc.VerifiedSpecs)
                            ELSE RatZero,
         HighMatchCount |-> acc.HighMatchCount,
         LowMatchCount  |-> acc.LowMatchCount,
         Results        |-> rs]

\* Mutant: a Summary with any low-match spec never passes.
IsPassingNoLow(s, threshold) == RatGE(s.AverageMatch, threshold) /\ s.LowMatchCount = 0

IsPassing(s, threshold) == RatGE(s.AverageMatch, threshold)

(***************************************************************************)
(* Verifier.VerifyAll                                                      *)
(***************************************************************************)
Init ==
    /\ Concurrency \in 0..MaxConcurrency
    /\ ctxCancelled = FALSE
    /\ mainPc = "find"
    /\ walkErr = ""
    /\ specFiles = <<>>
    /\ env = <<>>
    /\ spawned = 0
    /\ pc = <<>>
    /\ result = <<>>
    /\ judgeCalls = <<>>
    /\ semaphore = 0
    /\ wg = 0
    /\ resultChan = <<>>
    /\ chanClosed = FALSE
    /\ results = <<>>
    /\ ret = NoReturn
    /\ batch = NoBatch
    /\ paths = NoPaths
    /\ cov = NoCoverage
    /\ ext = NoExtract

\* FindSpecFiles and the two early returns; otherwise the channels are made.
FindWith(dir, listing, inputs) ==
    /\ mainPc = "find"
    /\ LET f == FindSpecFiles(dir, listing)
       IN  /\ walkErr' = f.walkErr
           /\ IF f.err # ""
              THEN /\ ret' = [summary |-> <<>>, err |-> "failed to find spec files"]
                   /\ mainPc' = "returned"
                   /\ UNCHANGED <<specFiles, env, pc, result, judgeCalls>>
              ELSE IF Len(f.files) = 0
              THEN /\ ret' = [summary |-> <<[TotalSpecs |-> 0, VerifiedSpecs |-> 0,
                                             AverageMatch |-> RatZero,
                                             HighMatchCount |-> 0, LowMatchCount |-> 0,
                                             Results |-> <<>>]>>,
                              err |-> ""]
                   /\ mainPc' = "returned"
                   /\ UNCHANGED <<specFiles, env, pc, result, judgeCalls>>
              ELSE /\ specFiles' = f.files
                   /\ env' = inputs
                   /\ pc' = [w \in 1..Len(f.files) |-> "idle"]
                   /\ result' = [w \in 1..Len(f.files) |-> NoResult]
                   /\ judgeCalls' = [w \in 1..Len(f.files) |-> 0]
                   /\ mainPc' = "spawn"
                   /\ UNCHANGED ret
    /\ UNCHANGED <<Concurrency, ctxCancelled, spawned, semaphore, wg, resultChan,
                   chanClosed, results>>
    /\ UNCHANGED aux

Find ==
    \E dir \in DirStates, listing \in Listings :
        \E inputs \in [1..Len(FindSpecFiles(dir, listing).files) -> SpecInputs] :
            FindWith(dir, listing, inputs)

\* One iteration of the spawn loop: wg.Add(1); go func(sf) {...}(specFile).
Spawn ==
    /\ mainPc = "spawn"
    /\ spawned < Len(specFiles)
    /\ spawned' = spawned + 1
    /\ wg' = wg + 1
    /\ pc' = [pc EXCEPT ![spawned + 1] = "acquire"]
    /\ UNCHANGED <<Concurrency, ctxCancelled, mainPc, walkErr, specFiles, env, result,
                   judgeCalls, semaphore, resultChan, chanClosed, results, ret>>
    /\ UNCHANGED aux

\* The loop is over: go func() { wg.Wait(); close(resultChan) }() and the
\* range over resultChan begins.
StartCollect ==
    /\ mainPc = "spawn"
    /\ spawned = Len(specFiles)
    /\ mainPc' = "collect"
    /\ UNCHANGED <<Concurrency, ctxCancelled, walkErr, specFiles, env, spawned, pc,
                   result, judgeCalls, semaphore, wg, resultChan, chanClosed, results, ret>>
    /\ UNCHANGED aux

\* Mutant: the goroutine does not wait for a free token.
AcquireUngated(w) ==
    /\ pc[w] = "acquire"
    /\ semaphore' = semaphore + 1
    /\ pc' = [pc EXCEPT ![w] = "verify"]
    /\ UNCHANGED <<Concurrency, ctxCancelled, mainPc, walkErr, specFiles, env, spawned,
                   result, judgeCalls, wg, resultChan, chanClosed, results, ret>>
    /\ UNCHANGED aux

\* semaphore <- struct{}{}: blocks while the channel holds Concurrency tokens.
Acquire(w) ==
    /\ pc[w] = "acquire"
    /\ semaphore < Concurrency
    /\ semaphore' = semaphore + 1
    /\ pc' = [pc EXCEPT ![w] = "verify"]
    /\ UNCHANGED <<Concurrency, ctxCancelled, mainPc, walkErr, specFiles, env, spawned,
                   result, judgeCalls, wg, resultChan, chanClosed, results, ret>>
    /\ UNCHANGED aux

\* verifyOne up to the Judge call: ParseSpec, FindCodeFiles, the zero-file
\* fast path, ReadFiles, and the invocation of provider.Verify.
VerifyLocal(w) ==
    /\ pc[w] = "verify"
    /\ LET v == verifyOneLocal(specFiles[w], env[w])
       IN  /\ result' = [result EXCEPT ![w] = v.result]
           /\ pc' = [pc EXCEPT ![w] = IF v.callJudge THEN "judge" ELSE "send"]
           /\ judgeCalls' = [judgeCalls EXCEPT ![w] = IF v.callJudge THEN @ + 1 ELSE @]
    /\ UNCHANGED <<Concurrency, ctxCancelled, mainPc, walkErr, specFiles, env, spawned,
                   semaphore, wg, resultChan, chanClosed, results, ret>>
    /\ UNCHANGED aux

\* Mutant: a failed Judge call is retried once.
JudgeReturnRetry(w) ==
    /\ pc[w] = "judge"
    /\ LET reply == ProviderVerify(ctxCancelled, env[w])
       IN  IF reply = JudgeError /\ judgeCalls[w] < 2
           THEN /\ judgeCalls' = [judgeCalls EXCEPT ![w] = @ + 1]
                /\ UNCHANGED <<result, pc>>
           ELSE /\ result' = [result EXCEPT ![w] = verifyOneJudged(@, reply)]
                /\ pc' = [pc EXCEPT ![w] = "send"]
                /\ UNCHANGED judgeCalls
    /\ UNCHANGED <<Concurrency, ctxCancelled, mainPc, walkErr, specFiles, env, spawned,
                   semaphore, wg, resultChan, chanClosed, results>>
    /\ UNCHANGED ret
    /\ UNCHANGED aux

\* provider.Verify returns and verifyOne finishes.
JudgeReturn(w) ==
    /\ pc[w] = "judge"
    /\ result' = [result EXCEPT
                    ![w] = verifyOneJudged(@, ProviderVerify(ctxCancelled, env[w]))]
    /\ pc' = [pc EXCEPT ![w] = "send"]
    /\ UNCHANGED <<Concurrency, ctxCancelled, mainPc, walkErr, specFiles, env, spawned,
                   judgeCalls, semaphore, wg, resultChan, chanClosed, results, ret>>
    /\ UNCHANGED aux

\* resultChan <- result: the channel has room for one Result per spec file.
Send(w) ==
    /\ pc[w] = "send"
    /\ Len(resultChan) < Len(specFiles)
    /\ resultChan' = Append(resultChan, result[w])
    /\ pc' = [pc EXCEPT ![w] = "exit"]
    /\ UNCHANGED <<Concurrency, ctxCancelled, mainPc, walkErr, specFiles, env, spawned,
                   result, judgeCalls, semaphore, wg, chanClosed, results, ret>>
    /\ UNCHANGED aux

\* The deferred calls: <-semaphore, then wg.Done().
Exit(w) ==
    /\ pc[w] = "exit"
    /\ semaphore' = semaphore - 1
    /\ wg' = wg - 1
    /\ pc' = [pc EXCEPT ![w] = "done"]
    /\ UNCHANGED <<Concurrency, ctxCancelled, mainPc, walkErr, specFiles, env, spawned,
                   result, judgeCalls, resultChan, chanClosed, results, ret>>
    /\ UNCHANGED aux

\* Mutant: the closer goroutine closes resultChan without waiting on wg.
CloseChanEarly ==
    /\ mainPc = "collect"
    /\ ~chanClosed
    /\ chanClosed' = TRUE
    /\ UNCHANGED <<Concurrency, ctxCancelled, mainPc, walkErr, specFiles, env, spawned,
                   pc, result, judgeCalls, semaphore, wg, resultChan, results, ret>>
    /\ UNCHANGED aux

\* The closer goroutine: wg.Wait() returns, close(resultChan).
CloseChan ==
    /\ mainPc = "collect"
    /\ ~chanClosed
    /\ wg = 0
    /\ chanClosed' = TRUE
    /\ UNCHANGED <<Concurrency, ctxCancelled, mainPc, walkErr, specFiles, env, spawned,
                   pc, result, judgeCalls, semaphore, wg, resultChan, results, ret>>
    /\ UNCHANGED aux

\* for result := range resultChan { results = append(results, result) }
Collect ==
    /\ mainPc = "collect"
    /\ resultChan # <<>>
    /\ results' = Append(results, Head(resultChan))
    /\ resultChan' = Tail(resultChan)
    /\ UNCHANGED <<Concurrency, ctxCancelled, mainPc, walkErr, specFiles, env, spawned,
                   pc, result, judgeCalls, semaphore, wg, chanClosed, ret>>
    /\ UNCHANGED aux

\* Mutant: the first failed Result fails the whole call.
ReturnFailFast ==
    /\ mainPc = "collect"
    /\ chanClosed
    /\ resultChan = <<>>
    /\ ret' = IF \E i \in 1..Len(results) : results[i].Error # ""
              THEN [summary |-> <<>>, err |-> "verification failed"]
              ELSE [summary |-> <<calculateSummary(results)>>, err |-> ""]
    /\ mainPc' = "returned"
    /\ UNCHANGED <<Concurrency, ctxCancelled, walkErr, specFiles, env, spawned, pc,
                   result, judgeCalls, semaphore, wg, resultChan, chanClosed, results>>
    /\ UNCHANGED aux

\* The range ends on the closed, drained channel: return calculateSummary.
Return ==
    /\ mainPc = "collect"
    /\ chanClosed
    /\ resultChan = <<>>
    /\ ret' = [summary |-> <<calculateSummary(results)>>, err |-> ""]
    /\ mainPc' = "returned"
    /\ UNCHANGED <<Concurrency, ctxCancelled, walkErr, specFiles, env, spawned, pc,
                   result, judgeCalls, semaphore, wg, resultChan, chanClosed, results>>
    /\ UNCHANGED aux

\* The caller cancels ctx while VerifyAll runs.
Cancel ==
    /\ mainPc # "returned"
    /\ ~ctxCancelled
    /\ ctxCancelled' = TRUE
    /\ UNCHANGED <<Concurrency, mainPc, walkErr, specFiles, env, spawned, pc, result,
                   judgeCalls, semaphore, wg, resultChan, chanClosed, results, ret>>
    /\ UNCHANGED aux

Next ==
    \/ Find
    \/ Spawn
    \/ StartCollect
    \/ \E w \in Workers : Acquire(w)
    \/ \E w \in Workers : VerifyLocal(w)
    \/ \E w \in Workers : JudgeReturn(w)
    \/ \E w \in Workers : Send(w)
    \/ \E w \in Workers : Exit(w)
    \/ CloseChan
    \/ Collect
    \/ Return
    \/ Cancel

Spec == Init /\ [][Next]_vars

(***************************************************************************)
(* VerifyAll as cmd/gh-spec-verify calls it: ctx is context.Background(),  *)
(* which is never cancelled.  The inputs are those of Spec and the worked  *)
(* example (five specs under a limit of 2).                                *)
(***************************************************************************)
FindExample ==
    /\ Concurrency = 2
    /\ FindWith("ok", ExampleListing, ExampleEnv)

NextBackground ==
    \/ Find
    \/ FindExample
    \/ Spawn
    \/ StartCollect
    \/ \E w \in Workers : Acquire(w)
    \/ \E w \in Workers : VerifyLocal(w)
    \/ \E w \in Workers : JudgeReturn(w)
    \/ \E w \in Workers : Send(w)
    \/ \E w \in Workers : Exit(w)
    \/ CloseChan
    \/ Collect
    \/ Return

SpecBackground == Init /\ [][NextBackground]_vars

(***************************************************************************)
(* Properties of the orchestrator.                                         *)
(***************************************************************************)
Returned == mainPc = "returned"
HasSummary == ret.summary # <<>>

\* Workers inside verifyOne: parsing and resolving, or waiting on the Judge.
Executing == {w \in Workers : pc[w] \in {"verify", "judge"}}

\* verifyOne for the spec of worker w run on its own, with ctx cancelled or not
\* when the Judge is called.
RunAlone(w, cancelled) ==
    LET v == verifyOneLocal(specFiles[w], env[w])
    IN  IF v.callJudge
        THEN verifyOneJudged(v.result, ProviderVerify(cancelled, env[w]))
        ELSE v.result

\* The positions of the collected Results that belong to the spec of worker w.
ResultsOf(w) == {i \in 1..Len(results) : results[i].SpecFile = specFiles[w]}

RECURSIVE SumOver(_, _)
SumOver(f, S) ==
    IF S = {} THEN 0
    ELSE LET x == CHOOSE y \in S : TRUE IN f[x] + SumOver(f, S \ {x})

\* C1: at every moment the number of specs whose per-spec verification is
\* executing is at most the configured concurrency limit.
C1_BoundedExecution == Cardinality(Executing) <= Concurrency

\* The limit is reached while another worker waits at the gate.
C1_Witness ==
    /\ Cardinality(Executing) = Concurrency
    /\ Concurrency >= 1
    /\ \E w \in Workers : pc[w] = "acquire"

\* C2: a failed spec verification is recorded only in that spec's Result:
\* VerifyAll returns a Summary and no error, with exactly one Result per spec
\* file, and every Result is what verifyOne gives for that spec on its own.
C2_ErrorsContained ==
    (Returned /\ specFiles # <<>>) =>
        /\ ret.err = ""
        /\ HasSummary
        /\ ret.summary[1].Results = results
        /\ \A w \in Workers :
             /\ Cardinality(ResultsOf(w)) = 1
             /\ \A i \in ResultsOf(w) :
                  /\ results[i] \in {RunAlone(w, c) : c \in BOOLEAN}
                  /\ ~ctxCancelled => results[i] = RunAlone(w, FALSE)

\* One spec failed, another was verified, and the call returned its Summary.
C2_Witness ==
    /\ Returned
    /\ ~ctxCancelled
    /\ ret.err = ""
    /\ \E i, j \in 1..Len(results) :
         /\ results[i].Error # ""
         /\ Verified(results[j])
         /\ results[j].Verification[1].MatchPercentage = 80

\* C3 (as claimed): once ctx was cancelled during VerifyAll and a Judge call
\* was aborted by it, the call returns an error and no Summary.
C3_CancelFailsCall ==
    (/\ Returned
     /\ ctxCancelled
     /\ \E w \in Workers : \E i \in ResultsOf(w) :
          /\ env[w].readable /\ env[w].codeFiles > 0 /\ env[w].judge # JudgeError
          /\ results[i].Error = "failed to verify with AI")
        => (ret.err # "" /\ ~HasSummary)

\* C4: a spec for which no code file resolves gets MatchPercentage 0 and no
\* error, and the Judge is never invoked for it.
C4_NoCodeNoJudge ==
    \A w \in Workers :
        (env[w].readable /\ env[w].codeFiles = 0) =>
            /\ judgeCalls[w] = 0
            /\ pc[w] # "judge"
            /\ pc[w] \in {"send", "exit", "done"} =>
                 /\ result[w].Error = ""
                 /\ result[w].Verification = <<[MatchPercentage |-> 0]>>
            /\ \A i \in ResultsOf(w) :
                 /\ results[i].Error = ""
                 /\ results[i].Verification = <<[MatchPercentage |-> 0]>>

\* A spec without code files went through verifyOne and was collected.
C4_Witness ==
    /\ Returned
    /\ \E w \in Workers :
         /\ env[w].readable /\ env[w].codeFiles = 0
         /\ pc[w] = "done"
         /\ ResultsOf(w) # {}

\* The specs that verify successfully, and their verdicts, read off the inputs.
OkSpecs ==
    {w \in Workers :
        env[w].readable /\ (env[w].codeFiles = 0 \/ env[w].judge # JudgeError)}
VerdictOf == [w \in Workers |-> IF env[w].codeFiles = 0 THEN 0 ELSE env[w].judge]

\* C5: for fixed specs and a Judge with a fixed verdict per spec, the counts
\* and the average of the Summary are determined by the inputs alone, whatever
\* the interleaving, completion order and limit; the worked example gives
\* AverageMatch 57, HighMatchCount 2, LowMatchCount 2, passing at 50, not at 60.
C5_OrderIndependent ==
    (Returned /\ specFiles # <<>>) =>
        /\ HasSummary
        /\ LET s == ret.summary[1]
           IN  /\ s.TotalSpecs = Len(specFiles)
               /\ s.VerifiedSpecs = Cardinality(OkSpecs)
               /\ s.AverageMatch = IF OkSpecs = {} THEN RatZero
                                   ELSE Rat(SumOver(VerdictOf, OkSpecs), Cardinality(OkSpecs))
               /\ s.HighMatchCount = Cardinality({w \in OkSpecs : VerdictOf[w] >= 80})
               /\ s.LowMatchCount = Cardinality({w \in OkSpecs : VerdictOf[w] < 50})
               /\ env = ExampleEnv =>
                    /\ s.AverageMatch = [num |-> 57, den |-> 1]
                    /\ s.HighMatchCount = 2
                    /\ s.LowMatchCount = 2
                    /\ IsPassing(s, 50)
                    /\ ~IsPassing(s, 60)

\* The worked example returned with its Results collected out of submission order.
C5_Witness ==
    /\ Returned
    /\ env = ExampleEnv
    /\ Concurrency = 2
    /\ results[1].SpecFile = specFiles[4]
    /\ results[5].SpecFile = specFiles[1]

\* The positions of the verified Results of a Summary, and their percentages.
VerifiedIn(s) ==
    {i \in 1..Len(s.Results) :
        s.Results[i].Error = "" /\ s.Results[i].Verification # <<>>}
MatchIn(s) ==
    [i \in VerifiedIn(s) |-> s.Results[i].Verification[1].MatchPercentage]

\* C6: AverageMatch is the sum of MatchPercentage over the Results without
\* error and with a verification, divided by their number (VerifiedSpecs), and
\* 0 when there are none.
C6_AverageOverVerified ==
    HasSummary =>
        LET s == ret.summary[1]
            n == Cardinality(VerifiedIn(s))
        IN  /\ s.VerifiedSpecs = n
            /\ s.AverageMatch = IF n = 0 THEN RatZero
                                ELSE Rat(SumOver(MatchIn(s), VerifiedIn(s)), n)

\* A Summary over one failed and one verified Result: the average is the
\* verified one's percentage.
C6_Witness ==
    /\ HasSummary
    /\ ret.summary[1].TotalSpecs = 2
    /\ ret.summary[1].VerifiedSpecs = 1
    /\ ret.summary[1].AverageMatch = [num |-> 80, den |-> 1]

Thresholds == 0..100

\* Summaries with the AverageMatch of s and other counts and Results.
SameAverage(s) ==
    {[s EXCEPT !.TotalSpecs = t, !.VerifiedSpecs = v, !.HighMatchCount = h,
               !.LowMatchCount = l, !.Results = r] :
        t \in {s.TotalSpecs, 7}, v \in {s.VerifiedSpecs, 0},
        h \in {s.HighMatchCount, 3}, l \in {s.LowMatchCount, 0, 3},
        r \in {s.Results, <<>>}}

\* C7: IsPassing(threshold) holds exactly when the average of the verified
\* percentages is at least the threshold, and no other field of the Summary
\* changes the answer.
C7_PassingByAverageOnly ==
    HasSummary =>
        LET s == ret.summary[1]
            n == Cardinality(VerifiedIn(s))
            total == SumOver(MatchIn(s), VerifiedIn(s))
        IN  \A t \in Thresholds :
              /\ IsPassing(s, t) <=> (IF n = 0 THEN 0 >= t ELSE total >= t * n)
              /\ \A s2 \in SameAverage(s) : IsPassing(s2, t) <=> IsPassing(s, t)

\* A Summary with a low-match Result that passes at 40 and fails at 41.
C7_Witness ==
    /\ HasSummary
    /\ ret.summary[1].LowMatchCount = 1
    /\ ret.summary[1].VerifiedSpecs = 2
    /\ IsPassing(ret.summary[1], 40)
    /\ ~IsPassing(ret.summary[1], 41)

\* C8: the Judge is invoked at most once per spec; once it failed for a spec
\* the Result of that spec carries the error and no verification.
C8_NoRetry ==
    \A w \in Workers :
        /\ judgeCalls[w] <= 1
        /\ (pc[w] \in {"send", "exit", "done"} /\ env[w].readable /\ env[w].codeFiles > 0
              /\ (env[w].judge = JudgeError \/ result[w].Error # "")) =>
             /\ judgeCalls[w] = 1
             /\ result[w].Error = "failed to verify with AI"
             /\ result[w].Verification = <<>>
        /\ \A i \in ResultsOf(w) : pc[w] \in {"exit", "done"} /\ results[i] = result[w]

\* A spec whose Judge call failed was collected after a single call.
C8_Witness ==
    /\ Returned
    /\ ~ctxCancelled
    /\ \E w \in Workers :
         /\ env[w].readable /\ env[w].codeFiles > 0 /\ env[w].judge = JudgeError
         /\ judgeCalls[w] = 1
         /\ \E i \in ResultsOf(w) : results[i].Error = "failed to verify with AI"

\* C9: HighMatchCount counts the verified Results with MatchPercentage >= 80,
\* LowMatchCount those with MatchPercentage < 50, and
\* HighMatchCount + LowMatchCount <= VerifiedSpecs <= TotalSpecs.
C9_HighLowCounts ==
    HasSummary =>
        LET s == ret.summary[1]
            m == MatchIn(s)
        IN  /\ s.HighMatchCount = Cardinality({i \in VerifiedIn(s) : m[i] >= 80})
            /\ s.LowMatchCount = Cardinality({i \in VerifiedIn(s) : m[i] < 50})
            /\ s.HighMatchCount + s.LowMatchCount <= s.VerifiedSpecs
            /\ s.VerifiedSpecs <= s.TotalSpecs

\* Results at both boundaries: 80 is counted high, 50 is not counted low.
C9_Witness ==
    /\ HasSummary
    /\ \E i, j \in VerifiedIn(ret.summary[1]) :
         /\ MatchIn(ret.summary[1])[i] = 80
         /\ MatchIn(ret.summary[1])[j] = 50
    /\ ret.summary[1].HighMatchCount = 1
    /\ ret.summary[1].LowMatchCount = 0

\* C10: when discovery finds no spec file (the searched directory may be
\* missing), VerifyAll returns the zero Summary and no error, starts no worker
\* and makes no Judge call.
C10_NoSpecsZeroSummary ==
    (mainPc # "find" /\ walkErr # "fault" /\ specFiles = <<>>) =>
        /\ Returned
        /\ ret.err = ""
        /\ HasSummary
        /\ ret.summary[1].TotalSpecs = 0
        /\ ret.summary[1].VerifiedSpecs = 0
        /\ ret.summary[1].AverageMatch = RatZero
        /\ ret.summary[1].Results = <<>>
        /\ spawned = 0 /\ wg = 0
        /\ pc = <<>>
        /\ judgeCalls = <<>>

\* The searched directory does not exist and VerifyAll returned.
C10_Witness ==
    /\ Returned
    /\ walkErr = "notexist"
    /\ ret.err = ""
    /\ HasSummary
(***************************************************************************)
(* splitIntoBatches (internal/parser/endpoint.go).  A file is named by its *)
(* position in the argument list; files[k] is its size in bytes.           *)
(***************************************************************************)
MaxFiles == 3
MaxFileSize == 3
MaxBytes == 2

\* The verifier is not running.
VerifierIdle ==
    /\ Concurrency = 0
    /\ ctxCancelled = FALSE
    /\ mainPc = "find"
    /\ walkErr = ""
    /\ specFiles = <<>>
    /\ env = <<>>
    /\ spawned = 0
    /\ pc = <<>>
    /\ result = <<>>
    /\ judgeCalls = <<>>
    /\ semaphore = 0
    /\ wg = 0
    /\ resultChan = <<>>
    /\ chanClosed = FALSE
    /\ results = <<>>
    /\ ret = NoReturn

\* The entry of splitIntoBatches: batches and currentBatch nil, currentSize 0.
BatchCall(files, maxBytes) ==
    [pc |-> "loop", files |-> files, maxBytes |-> maxBytes, i |-> 1,
     batches |-> <<>>, currentBatch |-> <<>>, currentSize |-> 0]

\* Mutant: an oversized file discards the batch being filled.
splitIterationDropPending(b) ==
    LET size == b.files[b.i]
    IN  IF size > b.maxBytes
        THEN [b EXCEPT !.batches = Append(@, <<b.i>>),
                       !.currentBatch = <<>>, !.currentSize = 0, !.i = @ + 1]
        ELSE IF b.currentSize + size > b.maxBytes
        THEN [b EXCEPT !.batches = IF b.currentBatch # <<>>
                                   THEN Append(@, b.currentBatch) ELSE @,
                       !.currentBatch = <<b.i>>, !.currentSize = size, !.i = @ + 1]
        ELSE [b EXCEPT !.currentBatch = Append(@, b.i),
                       !.currentSize = @ + size, !.i = @ + 1]

\* Mutant: the ceiling is tested before the file is added, not after.
splitIterationLateCheck(b) ==
    LET size == b.files[b.i]
    IN  IF size > b.maxBytes
        THEN [b EXCEPT !.batches = Append(IF b.currentBatch # <<>>
                                          THEN Append(@, b.currentBatch) ELSE @,
                                          <<b.i>>),
                       !.currentBatch = <<>>, !.currentSize = 0, !.i = @ + 1]
        ELSE IF b.currentSize > b.maxBytes
        THEN [b EXCEPT !.batches = IF b.currentBatch # <<>>
                                   THEN Append(@, b.currentBatch) ELSE @,
                       !.currentBatch = <<b.i>>, !.currentSize = size, !.i = @ + 1]
        ELSE [b EXCEPT !.currentBatch = Append(@, b.i),
                       !.currentSize = @ + size, !.i = @ + 1]

\* Mutant: a new batch is started as soon as the ceiling would be reached.
splitIterationEager(b) ==
    LET size == b.files[b.i]
    IN  IF size > b.maxBytes
        THEN [b EXCEPT !.batches = Append(IF b.currentBatch # <<>>
                                          THEN Append(@, b.currentBatch) ELSE @,
                                          <<b.i>>),
                       !.currentBatch = <<>>, !.currentSize = 0, !.i = @ + 1]
        ELSE IF b.currentSize + size >= b.maxBytes
        THEN [b EXCEPT !.batches = IF b.currentBatch # <<>>
                                   THEN Append(@, b.currentBatch) ELSE @,
                       !.currentBatch = <<b.i>>, !.currentSize = size, !.i = @ + 1]
        ELSE [b EXCEPT !.currentBatch = Append(@, b.i),
                       !.currentSize = @ + size, !.i = @ + 1]

\* One iteration of `for _, fc := range files`, fc being file b.i.
splitIteration(b) ==
    LET size == b.files[b.i]
    IN  IF size > b.maxBytes
        THEN \* flush the batch being filled, then the file alone; continue
             [b EXCEPT !.batches = Append(IF b.currentBatch # <<>>
                                          THEN Append(@, b.currentBatch) ELSE @,
                                          <<b.i>>),
                       !.currentBatch = <<>>, !.currentSize = 0, !.i = @ + 1]
        ELSE IF b.currentSize + size > b.maxBytes
        THEN [b EXCEPT !.batches = IF b.currentBatch # <<>>
                                   THEN Append(@, b.currentBatch) ELSE @,
                       !.currentBatch = <<b.i>>, !.currentSize = size, !.i = @ + 1]
        ELSE [b EXCEPT !.currentBatch = Append(@, b.i),
                       !.currentSize = @ + size, !.i = @ + 1]

\* After the loop: the last batch is appended if it holds a file; return.
splitReturn(b) ==
    [b EXCEPT !.batches = IF b.currentBatch # <<>> THEN Append(@, b.currentBatch) ELSE @,
              !.pc = "done"]

InitBatch ==
    /\ VerifierIdle
    /\ \E files \in SeqsUpTo(0..MaxFileSize, MaxFiles), maxBytes \in 1..MaxBytes :
           batch = BatchCall(files, maxBytes)
    /\ paths = NoPaths
    /\ cov = NoCoverage
    /\ ext = NoExtract

BatchStep ==
    /\ batch.pc = "loop"
    /\ batch.i <= Len(batch.files)
    /\ batch' = splitIteration(batch)
    /\ UNCHANGED <<verifierVars, paths, cov, ext>>

BatchReturn ==
    /\ batch.pc = "loop"
    /\ batch.i > Len(batch.files)
    /\ batch' = splitReturn(batch)
    /\ UNCHANGED <<verifierVars, paths, cov, ext>>

NextBatch ==
    \/ BatchStep
    \/ BatchReturn

SpecBatch == InitBatch /\ [][NextBatch]_vars

(***************************************************************************)
(* Properties of splitIntoBatches.                                         *)
(***************************************************************************)
RECURSIVE Concat(_)
Concat(ss) == IF ss = <<>> THEN <<>> ELSE Head(ss) \o Concat(Tail(ss))

RECURSIVE BatchSize(_, _)
BatchSize(files, bt) ==
    IF bt = <<>> THEN 0 ELSE files[Head(bt)] + BatchSize(files, Tail(bt))

BatchDone == batch.pc = "done"

\* C11: when splitIntoBatches returns, its batches concatenated in order are
\* the argument list: every file once, in its original position.
C11_BatchesPartitionInput ==
    BatchDone => Concat(batch.batches) = [k \in 1..Len(batch.files) |-> k]

\* An oversized file arrives while a batch is being filled, and more follow.
C11_Witness ==
    /\ BatchDone
    /\ Len(batch.files) = 3
    /\ Len(batch.batches) = 3
    /\ batch.files[2] > batch.maxBytes

\* C12: in the returned batches, a batch of more than one file has a total
\* size within the ceiling, so a file larger than the ceiling is alone.
C12_MultiFileBatchWithinCeiling ==
    BatchDone =>
        \A j \in 1..Len(batch.batches) :
            LET bt == batch.batches[j]
            IN  /\ Len(bt) > 1 => BatchSize(batch.files, bt) <= batch.maxBytes
                /\ (\E k \in 1..Len(bt) : batch.files[bt[k]] > batch.maxBytes)
                       => Len(bt) = 1

\* A full two-file batch is followed by an oversized file in its own batch.
C12_Witness ==
    /\ BatchDone
    /\ \E j \in 1..Len(batch.batches) :
           /\ Len(batch.batches[j]) = 2
           /\ BatchSize(batch.files, batch.batches[j]) = batch.maxBytes
    /\ \E j \in 1..Len(batch.batches) :
           batch.files[batch.batches[j][1]] > batch.maxBytes


(***************************************************************************)
(* pathsMatch and isPathParameter (internal/parser/coverage.go).  A path   *)
(* is the sequence of its characters.                                      *)
(***************************************************************************)
MaxSegments == 2

\* Segments the argument paths are built from: literals, a lone colon, and
\* one parameter of each notation.
MatchSegments ==
    { <<"a">>, <<"b">>, <<":">>, <<":", "a">>, <<"{", "a", "}">>, <<"<", "b", ">">> }

RECURSIVE JoinSegments(_)
JoinSegments(segs) ==
    IF segs = <<>> THEN <<>>
    ELSE IF Len(segs) = 1 THEN segs[1]
    ELSE Head(segs) \o <<"/">> \o JoinSegments(Tail(segs))

\* No slash around the segments, a leading one, or a leading and a trailing one.
SlashForms == { <<<<>>, <<>>>>, <<<<"/">>, <<>>>>, <<<<"/">>, <<"/">>>> }

PathsOver(segments) ==
    { f[1] \o JoinSegments(ss) \o f[2] :
          ss \in SeqsUpTo(segments, MaxSegments), f \in SlashForms }

MatchPaths == PathsOver(MatchSegments)

\* The pairs exercised by TestPathsMatch that the documentation quotes.
MatchExampleList ==
    << <<<<"/", "u", "s", "e", "r", "s", "/", ":", "i", "d">>, <<"/", "u", "s", "e", "r", "s", "/", "1", "2", "3">>>>,
      <<<<"/", "u", "s", "e", "r", "s">>, <<"/", "p", "o", "s", "t", "s">>>>,
      <<<<"/", "u", "s", "e", "r", "s", "/", "1", "2", "3", "/", "p", "o", "s", "t", "s">>, <<"/", "u", "s", "e", "r", "s", "/", "1", "2", "3">>>>,
      <<<<"/", "u", "s", "e", "r", "s">>, <<>>>> >>

MatchExamples == { MatchExampleList[k] : k \in 1..Len(MatchExampleList) }

\* strings.Trim(path, "/")
RECURSIVE TrimLeft(_)
TrimLeft(s) == IF s # <<>> /\ Head(s) = "/" THEN TrimLeft(Tail(s)) ELSE s

RECURSIVE TrimRight(_)
TrimRight(s) ==
    IF s # <<>> /\ s[Len(s)] = "/" THEN TrimRight(SubSeq(s, 1, Len(s) - 1)) ELSE s

Trim(s) == TrimRight(TrimLeft(s))

\* strings.Split(s, "/"): always at least one segment, possibly empty.
RECURSIVE SplitLoop(_, _, _)
SplitLoop(s, cur, acc) ==
    IF s = <<>> THEN Append(acc, cur)
    ELSE IF Head(s) = "/" THEN SplitLoop(Tail(s), <<>>, Append(acc, cur))
    ELSE SplitLoop(Tail(s), Append(cur, Head(s)), acc)

Split(s) == SplitLoop(s, <<>>, <<>>)

\* Mutant: the length of the segment is not looked at.
isPathParameterAnyLength(segment) ==
    /\ segment # <<>>
    /\ \/ segment[1] = ":"
       \/ segment[1] = "{" /\ segment[Len(segment)] = "}"
       \/ segment[1] = "<" /\ segment[Len(segment)] = ">"

isPathParameter(segment) ==
    IF Len(segment) < 2 THEN FALSE
    ELSE \/ segment[1] = ":"
         \/ segment[1] = "{" /\ segment[Len(segment)] = "}"
         \/ segment[1] = "<" /\ segment[Len(segment)] = ">"

\* Mutant: only a parameter in the first path is a wildcard.
pathsMatchOneSided(path1, path2) ==
    IF path1 = <<>> \/ path2 = <<>> THEN path1 = path2
    ELSE IF path1 = path2 THEN TRUE
    ELSE LET segments1 == Split(Trim(path1))
             segments2 == Split(Trim(path2))
         IN  IF Len(segments1) # Len(segments2) THEN FALSE
             ELSE \A i \in 1..Len(segments1) :
                      \/ isPathParameter(segments1[i])
                      \/ segments1[i] = segments2[i]

pathsMatch(path1, path2) ==
    IF path1 = <<>> \/ path2 = <<>> THEN path1 = path2
    ELSE IF path1 = path2 THEN TRUE
    ELSE LET segments1 == Split(Trim(path1))
             segments2 == Split(Trim(path2))
         IN  IF Len(segments1) # Len(segments2) THEN FALSE
             ELSE \A i \in 1..Len(segments1) :
                      \/ isPathParameter(segments1[i])
                      \/ isPathParameter(segments2[i])
                      \/ segments1[i] = segments2[i]

InitMatch ==
    /\ VerifierIdle
    /\ batch = NoBatch
    /\ \E pr \in (MatchPaths \X MatchPaths) \cup MatchExamples :
           paths = [pc |-> "match", path1 |-> pr[1], path2 |-> pr[2]]
    /\ cov = NoCoverage
    /\ ext = NoExtract

\* result := pathsMatch(tt.path1, tt.path2)
MatchCall ==
    /\ paths.pc = "match"
    /\ paths' = [pc |-> "matched", path1 |-> paths.path1, path2 |-> paths.path2,
                 result |-> pathsMatch(paths.path1, paths.path2)]
    /\ UNCHANGED <<verifierVars, batch, cov, ext>>

NextMatch ==
    \/ MatchCall

SpecMatch == InitMatch /\ [][NextMatch]_vars

(***************************************************************************)
(* Properties of pathsMatch.                                               *)
(***************************************************************************)
Matched == paths.pc = "matched"

\* C13: pathsMatch gives the same answer with its arguments exchanged, for
\* literal, colon, brace and angle segments, empty paths and extra slashes.
C13_MatchSymmetric ==
    Matched => paths.result = pathsMatch(paths.path2, paths.path1)

\* A literal first path matched against a second path that has the parameter.
C13_Witness ==
    /\ Matched
    /\ paths.path1 = <<"/", "a", "/", "b">>
    /\ paths.path2 = <<"/", "a", "/", "{", "a", "}", "/">>
    /\ paths.result = TRUE

\* The path between its first and last character that is not a slash.
Stripped(p) ==
    LET keep == {i \in 1..Len(p) : p[i] # "/"}
    IN  IF keep = {} THEN <<>>
        ELSE SubSeq(p, CHOOSE i \in keep : \A j \in keep : i <= j,
                       CHOOSE i \in keep : \A j \in keep : i >= j)

\* The slash positions of a stripped path, with the two ends.
Cuts(t) == {0, Len(t) + 1} \cup {i \in 1..Len(t) : t[i] = "/"}

SegmentCount(p) == Cardinality(Cuts(Stripped(p))) - 1

\* The k-th '/'-separated segment of the stripped path.
SegmentAt(p, k) ==
    LET t == Stripped(p)
        cut(n) == CHOOSE c \in Cuts(t) : Cardinality({x \in Cuts(t) : x < c}) = n
    IN  SubSeq(t, cut(k - 1) + 1, cut(k) - 1)

Wrapped(seg, open, close) == Len(seg) >= 2 /\ seg[1] = open /\ seg[Len(seg)] = close

ParameterSegment(seg) ==
    \/ Len(seg) >= 2 /\ seg[1] = ":"
    \/ Wrapped(seg, "{", "}")
    \/ Wrapped(seg, "<", ">")

SegmentwiseMatch(a, b) ==
    /\ SegmentCount(a) = SegmentCount(b)
    /\ \A k \in 1..SegmentCount(a) :
           \/ SegmentAt(a, k) = SegmentAt(b, k)
           \/ ParameterSegment(SegmentAt(a, k))
           \/ ParameterSegment(SegmentAt(b, k))

MatchExampleAnswers == <<TRUE, FALSE, FALSE, FALSE>>

\* C14: with an empty argument pathsMatch is true only when both are empty;
\* otherwise it is true exactly when the paths are equal or, after stripping
\* leading and trailing slashes, have the same number of segments and at each
\* position equal segments or a parameter segment on either side.  The quoted
\* examples get the quoted answers.
C14_MatchCharacterised ==
    Matched =>
        /\ paths.result =
               IF paths.path1 = <<>> \/ paths.path2 = <<>>
               THEN paths.path1 = <<>> /\ paths.path2 = <<>>
               ELSE paths.path1 = paths.path2 \/ SegmentwiseMatch(paths.path1, paths.path2)
        /\ \A k \in 1..Len(MatchExampleList) :
               <<paths.path1, paths.path2>> = MatchExampleList[k]
                   => paths.result = MatchExampleAnswers[k]

\* The first quoted example: "/users/:id" against "/users/123".
C14_Witness ==
    /\ Matched
    /\ <<paths.path1, paths.path2>> = MatchExampleList[1]
    /\ paths.result = TRUE


(***************************************************************************)
(* NormalizePath (internal/parser/endpoint.go): the two regular            *)
(* expressions, applied with ReplaceAllString and the template ":$1".      *)
(***************************************************************************)
\* Segments the argument is built from: a literal, and parameters in the
\* colon, brace, angle and typed-angle notations; braces inside braces.
NormalizeSegments ==
    { <<"a">>, <<":", "a", "b">>, <<"{", "a", "}">>, <<"{", "a", "b", "}">>, <<"<", "a", ">">>, <<"<", "a", "b", ">">>, <<"<", "t", ":", "a", "b", ">">>, <<"{", "{", "a", "}", "}">> }

\* The paths of TestNormalizePath that the documentation quotes.
NormalizeExampleList ==
    << <<"/", "u", "s", "e", "r", "s", "/", "{", "i", "d", "}">>,
       <<"/", "u", "s", "e", "r", "s", "/", "<", "i", "d", ">">>,
       <<"/", "u", "s", "e", "r", "s", "/", "<", "i", "n", "t", ":", "i", "d", ">">>,
       <<"/", "u", "s", "e", "r", "s", "/", ":", "i", "d">> >>

NormalizePaths ==
    PathsOver(NormalizeSegments)
        \cup { NormalizeExampleList[k] : k \in 1..Len(NormalizeExampleList) }

\* The first position of ch in s, 0 when it does not occur.
IndexOf(s, ch) ==
    IF \E i \in 1..Len(s) : s[i] = ch
    THEN CHOOSE i \in 1..Len(s) : s[i] = ch /\ \A j \in 1..(i - 1) : s[j] # ch
    ELSE 0

\* Mutant: the template keeps the whole match after the colon.
RECURSIVE ReplaceBracesWholeMatch(_)
ReplaceBracesWholeMatch(s) ==
    IF s = <<>> THEN <<>>
    ELSE LET j == IndexOf(s, "}")
         IN  IF Head(s) = "{" /\ j >= 3
             THEN <<":">> \o SubSeq(s, 1, j)
                      \o ReplaceBracesWholeMatch(SubSeq(s, j + 1, Len(s)))
             ELSE <<Head(s)>> \o ReplaceBracesWholeMatch(Tail(s))

\* bracesPathParamRegex.ReplaceAllString(path, ":$1") with \{([^}]+)\}: a
\* match starts at a '{' whose next '}' is at least two characters on; the
\* group is what lies between them.  Matches are leftmost, not overlapping.
RECURSIVE ReplaceBraces(_)
ReplaceBraces(s) ==
    IF s = <<>> THEN <<>>
    ELSE LET j == IndexOf(s, "}")
         IN  IF Head(s) = "{" /\ j >= 3
             THEN <<":">> \o SubSeq(s, 2, j - 1) \o ReplaceBraces(SubSeq(s, j + 1, Len(s)))
             ELSE <<Head(s)>> \o ReplaceBraces(Tail(s))

\* The group of <[^:>]*:?([^>]+)> on the text c between '<' and the next '>'
\* (c is not empty).  [^:>]* is greedy and runs to the first colon or to the
\* end of c; with a colon that has text after it the group is that text; a
\* colon that ends c is the group itself; without a colon the prefix gives
\* back one character, and the group is the last character of c.
AngleGroup(c) ==
    LET k == IndexOf(c, ":")
    IN  IF k = 0 THEN SubSeq(c, Len(c), Len(c))
        ELSE IF k < Len(c) THEN SubSeq(c, k + 1, Len(c))
        ELSE <<":">>

\* angleBracketPathParamRegex.ReplaceAllString(path, ":$1")
RECURSIVE ReplaceAngles(_)
ReplaceAngles(s) ==
    IF s = <<>> THEN <<>>
    ELSE LET j == IndexOf(s, ">")
         IN  IF Head(s) = "<" /\ j >= 3
             THEN <<":">> \o AngleGroup(SubSeq(s, 2, j - 1))
                      \o ReplaceAngles(SubSeq(s, j + 1, Len(s)))
             ELSE <<Head(s)>> \o ReplaceAngles(Tail(s))

NormalizePath(path) == ReplaceAngles(ReplaceBraces(path))

InitNormalize ==
    /\ VerifierIdle
    /\ batch = NoBatch
    /\ \E p \in NormalizePaths : paths = [pc |-> "normalize", path |-> p]
    /\ cov = NoCoverage
    /\ ext = NoExtract

\* once := NormalizePath(path)
NormalizeCall ==
    /\ paths.pc = "normalize"
    /\ paths' = [pc |-> "normalized", path |-> paths.path,
                 once |-> NormalizePath(paths.path)]
    /\ UNCHANGED <<verifierVars, batch, cov, ext>>

\* twice := NormalizePath(once)
NormalizeAgain ==
    /\ paths.pc = "normalized"
    /\ paths' = [pc |-> "renormalized", path |-> paths.path, once |-> paths.once,
                 twice |-> NormalizePath(paths.once)]
    /\ UNCHANGED <<verifierVars, batch, cov, ext>>

NextNormalize ==
    \/ NormalizeCall
    \/ NormalizeAgain

SpecNormalize == InitNormalize /\ [][NextNormalize]_vars

(***************************************************************************)
(* Properties of NormalizePath.                                            *)
(***************************************************************************)
SpecialChars == {"/", ":", "{", "}", "<", ">"}

\* A name or a literal segment: no slash, colon, brace or angle bracket.
Plain(seg) == \A i \in 1..Len(seg) : seg[i] \notin SpecialChars

Inside(seg) == SubSeq(seg, 2, Len(seg) - 1)

ColonParameter(seg) == Len(seg) >= 2 /\ seg[1] = ":" /\ Plain(Tail(seg))
BraceParameter(seg) == Len(seg) >= 3 /\ Wrapped(seg, "{", "}") /\ Plain(Inside(seg))
AngleParameter(seg) == Len(seg) >= 3 /\ Wrapped(seg, "<", ">") /\ Plain(Inside(seg))

\* <type:name>
TypedAngleParameter(seg) ==
    /\ Len(seg) >= 5
    /\ Wrapped(seg, "<", ">")
    /\ LET c == Inside(seg)
           k == IndexOf(c, ":")
       IN  /\ k > 1
           /\ k < Len(c)
           /\ Plain(SubSeq(c, 1, k - 1))
           /\ Plain(SubSeq(c, k + 1, Len(c)))

SegmentsOf(p) == {SegmentAt(p, k) : k \in 1..SegmentCount(p)}

\* A path written with the colon and brace notations only.
ColonBracePath(p) ==
    \A seg \in SegmentsOf(p) : Plain(seg) \/ ColonParameter(seg) \/ BraceParameter(seg)

\* A path whose parameters are written in any of the four notations.
NotatedPath(p) ==
    \A seg \in SegmentsOf(p) :
        \/ Plain(seg)
        \/ ColonParameter(seg)
        \/ BraceParameter(seg)
        \/ AngleParameter(seg)
        \/ TypedAngleParameter(seg)

\* C15: on a path written with the colon or brace notations, NormalizePath
\* applied to its own result returns that result.
C15_NormalizeIdempotent ==
    (paths.pc = "renormalized" /\ ColonBracePath(paths.path))
        => paths.twice = paths.once

\* A path with a brace parameter that the first application rewrote.
C15_Witness ==
    /\ paths.pc = "renormalized"
    /\ paths.path = <<"/", "{", "a", "b", "}", "/", ":", "a", "b">>
    /\ paths.once = <<"/", ":", "a", "b", "/", ":", "a", "b">>
    /\ paths.twice = paths.once

\* What the segment is to become: :name for {name}, <name> and <type:name>.
ColonForm(seg) ==
    IF BraceParameter(seg) \/ AngleParameter(seg) THEN <<":">> \o Inside(seg)
    ELSE IF TypedAngleParameter(seg)
    THEN <<":">> \o SubSeq(Inside(seg), IndexOf(Inside(seg), ":") + 1, Len(Inside(seg)))
    ELSE seg

ColonFormOfPath(p) == JoinSegments([k \in 1..Len(Split(p)) |-> ColonForm(Split(p)[k])])

\* C16 (as claimed): NormalizePath turns every {name}, <name> and <type:name>
\* into :name and leaves :name parameters and literal segments as they are.
C16_AllNotationsToColon ==
    (paths.pc \in {"normalized", "renormalized"} /\ NotatedPath(paths.path))
        => paths.once = ColonFormOfPath(paths.path)


(***************************************************************************)
(* CalculateCoverage (internal/parser/coverage.go).  A spec file is named  *)
(* by its rank in the walk, a route by its position in the extracted list. *)
(***************************************************************************)
MaxRoutes == 2
MaxSpecFiles == 2

RoutePaths == { <<"/", "u", "/", "1">>, <<"/", "u", "/", "{", "i", "}">>, <<"/", "p">>, <<>> }
Categories == {"api", "ui"}

\* What ExtractEndpoints returns: Category is never empty (endpoint.go:59-67).
Endpoints == [Path : RoutePaths, Category : Categories]

SpecRoutePaths == { <<>>, <<"/", "u", "/", ":", "i">>, <<"/", "u", "/", "{", "i", "}">>, <<"/", ":", "a", "/", "1">>, <<"/", "q">> }

\* What os.ReadFile and the metadata table give for a spec file.
SpecFileInputs ==
    {[readable |-> FALSE, RoutePath |-> <<>>]}
        \cup [readable : {TRUE}, RoutePath : SpecRoutePaths]

\* Ten routes and six specs; six of the routes match a spec's path.
CoverageExample ==
    [extractErr |-> FALSE,
     endpoints |-> << [Path |-> <<"/", "a">>, Category |-> "api"],
                    [Path |-> <<"/", "b">>, Category |-> "api"],
                    [Path |-> <<"/", "c">>, Category |-> "api"],
                    [Path |-> <<"/", "d">>, Category |-> "api"],
                    [Path |-> <<"/", "e", "/", ":", "i">>, Category |-> "api"],
                    [Path |-> <<"/", "f", "/", "1">>, Category |-> "api"],
                    [Path |-> <<"/", "g">>, Category |-> "api"],
                    [Path |-> <<"/", "h">>, Category |-> "api"],
                    [Path |-> <<"/", "i">>, Category |-> "api"],
                    [Path |-> <<"/", "j">>, Category |-> "api"] >>,
     dir |-> "ok",
     specs |-> << [readable |-> TRUE, RoutePath |-> <<"/", "a">>],
                [readable |-> TRUE, RoutePath |-> <<"/", "b">>],
                [readable |-> TRUE, RoutePath |-> <<"/", "c">>],
                [readable |-> TRUE, RoutePath |-> <<"/", "d">>],
                [readable |-> TRUE, RoutePath |-> <<"/", "e", "/", "{", "i", "}">>],
                [readable |-> TRUE, RoutePath |-> <<"/", "f", "/", ":", "n">>] >>]

CoverageInputs ==
    {[extractErr |-> TRUE, endpoints |-> <<>>, dir |-> "ok", specs |-> <<>>]}
        \cup [extractErr : {FALSE}, endpoints : SeqsUpTo(Endpoints, MaxRoutes),
              dir : {"ok"}, specs : SeqsUpTo(SpecFileInputs, MaxSpecFiles)]
        \cup [extractErr : {FALSE}, endpoints : SeqsUpTo(Endpoints, MaxRoutes),
              dir : {"missing", "fault"}, specs : {<<>>}]
        \cup {CoverageExample}

NoReport ==
    [TotalEndpoints |-> 0, CoveredEndpoints |-> 0, UncoveredEndpoints |-> 0,
     CoveragePercentage |-> RatZero, TotalSpecs |-> 0, OrphanedSpecs |-> 0,
     Covered |-> <<>>, Uncovered |-> <<>>, Orphaned |-> <<>>, ByCategory |-> <<>>]

\* The entry of CalculateCoverage.
CoverageCall(in) ==
    [pc |-> "extract", in |-> in, endpoints |-> <<>>, specFiles |-> <<>>, k |-> 1,
     specs |-> <<>>, specPathMap |-> <<>>, matchedSpecs |-> {}, i |-> 1,
     report |-> NoReport, err |-> ""]

\* ParseSpec: fails when the file cannot be read.
ParseSpec(file, input) ==
    IF input.readable
    THEN [err |-> "", spec |-> [FilePath |-> file, RoutePath |-> input.RoutePath]]
    ELSE [err |-> "failed to read spec file", spec |-> <<>>]

\* Mutant: a key that is present keeps its value.
MapSetIfAbsent(m, key, value) ==
    [x \in DOMAIN m \cup {key} |-> IF x \in DOMAIN m THEN m[x] ELSE value]

\* m[key] = value on a Go map.
MapSet(m, key, value) ==
    [x \in DOMAIN m \cup {key} |-> IF x = key THEN value ELSE m[x]]

\* The phase after the spec files are parsed, and after route i.
RoutesPhase(c, i) == IF i > Len(c.endpoints) THEN "finish" ELSE "routes"

\* Mutant: only the exact lookup is made.
RouteMatchesExactOnly(c, ep) ==
    IF NormalizePath(ep.Path) \in DOMAIN c.specPathMap
    THEN {c.specPathMap[NormalizePath(ep.Path)]}
    ELSE {0}

\* The specs a route can be paired with; 0 stands for none.  An exact hit in
\* the index decides alone; otherwise the scan stops at the first indexed
\* path that pathsMatch accepts, in whatever order the map is ranged over.
RouteMatches(c, ep) ==
    LET normalizedPath == NormalizePath(ep.Path)
        scan == {specPath \in DOMAIN c.specPathMap : pathsMatch(normalizedPath, specPath)}
    IN  IF normalizedPath \in DOMAIN c.specPathMap
        THEN {c.specPathMap[normalizedPath]}
        ELSE IF scan = {} THEN {0}
        ELSE {c.specPathMap[specPath] : specPath \in scan}

\* initCategoryIfNeeded
InitCategory(byCategory, cat) ==
    IF cat \in DOMAIN byCategory THEN byCategory
    ELSE MapSet(byCategory, cat,
                [Category |-> cat, Total |-> 0, Covered |-> 0, Uncovered |-> 0,
                 Percentage |-> RatZero, CoveredItems |-> <<>>, UncoveredItems |-> <<>>])

ItemOf(c, spec) ==
    [ep |-> c.i, Path |-> c.endpoints[c.i].Path,
     Category |-> IF c.endpoints[c.i].Category = "" THEN "api"
                  ELSE c.endpoints[c.i].Category,
     SpecFile |-> spec]

\* The covered branch, taken by the exact hit and by the scan alike.
AddCovered(c, spec) ==
    LET item == ItemOf(c, spec)
        byCat == InitCategory(c.report.ByCategory, item.Category)
    IN  [c EXCEPT !.report.Covered = Append(@, item),
                  !.report.CoveredEndpoints = @ + 1,
                  !.matchedSpecs = @ \cup {spec},
                  !.report.ByCategory =
                      [byCat EXCEPT ![item.Category].CoveredItems = Append(@, item),
                                    ![item.Category].Covered = @ + 1,
                                    ![item.Category].Total = @ + 1]]

\* Mutant: an uncovered route is left out of its category's Total.
AddUncoveredNoTotal(c) ==
    LET item == [ep |-> c.i, Path |-> c.endpoints[c.i].Path,
                 Category |-> c.endpoints[c.i].Category, SpecFile |-> 0]
        byCat == IF item.Category \in DOMAIN c.report.ByCategory
                 THEN c.report.ByCategory
                 ELSE [x \in DOMAIN c.report.ByCategory \cup {item.Category} |->
                          IF x = item.Category
                          THEN [Category |-> x, Total |-> 0, Covered |-> 0,
                                Uncovered |-> 0, Percentage |-> RatZero,
                                CoveredItems |-> <<>>, UncoveredItems |-> <<>>]
                          ELSE c.report.ByCategory[x]]
    IN  [c EXCEPT !.report.Uncovered = Append(@, item),
                  !.report.UncoveredEndpoints = @ + 1,
                  !.report.ByCategory =
                      [byCat EXCEPT ![item.Category].UncoveredItems = Append(@, item),
                                    ![item.Category].Uncovered = @ + 1]]

\* The branch taken when nothing matched.
AddUncovered(c) ==
    LET item == ItemOf(c, 0)
        byCat == InitCategory(c.report.ByCategory, item.Category)
    IN  [c EXCEPT !.report.Uncovered = Append(@, item),
                  !.report.UncoveredEndpoints = @ + 1,
                  !.report.ByCategory =
                      [byCat EXCEPT ![item.Category].UncoveredItems = Append(@, item),
                                    ![item.Category].Uncovered = @ + 1,
                                    ![item.Category].Total = @ + 1]]

NextRoute(c) == [c EXCEPT !.i = @ + 1, !.pc = RoutesPhase(c, c.i + 1)]

\* Mutant: a route matched by the scan is recorded as uncovered as well.
recordRouteFallThrough(c, spec) ==
    IF spec = 0 THEN NextRoute(AddUncovered(c))
    ELSE IF NormalizePath(c.endpoints[c.i].Path) \in DOMAIN c.specPathMap
    THEN NextRoute(AddCovered(c, spec))
    ELSE NextRoute(AddUncovered(AddCovered(c, spec)))

\* Mutant: a spec found by the scan is not marked as matched.
recordRouteUnmarkedScan(c, spec) ==
    IF spec = 0 THEN NextRoute(AddUncovered(c))
    ELSE IF NormalizePath(c.endpoints[c.i].Path) \in DOMAIN c.specPathMap
    THEN NextRoute(AddCovered(c, spec))
    ELSE NextRoute([AddCovered(c, spec) EXCEPT !.matchedSpecs = c.matchedSpecs])

\* The body of `for _, ep := range endpoints` for route c.i, paired with spec.
recordRoute(c, spec) ==
    IF spec = 0 THEN NextRoute(AddUncovered(c)) ELSE NextRoute(AddCovered(c, spec))

\* The orphan loop: the parsed specs that were never marked, in parse order.
RECURSIVE OrphanLoop(_, _, _)
OrphanLoop(specs, matched, acc) ==
    IF specs = <<>> THEN acc
    ELSE OrphanLoop(Tail(specs), matched,
                    IF Head(specs).FilePath \in matched THEN acc
                    ELSE Append(acc, [File |-> Head(specs).FilePath,
                                      RoutePath |-> Head(specs).RoutePath]))

CategoryPercentages(byCategory) ==
    [cat \in DOMAIN byCategory |->
        IF byCategory[cat].Total > 0
        THEN [byCategory[cat] EXCEPT
                 !.Percentage = Rat(byCategory[cat].Covered * 100, byCategory[cat].Total)]
        ELSE byCategory[cat]]

\* Mutant: the quotient is not scaled to a percentage.
finishReportFraction(c) ==
    LET orphaned == OrphanLoop(c.specs, c.matchedSpecs, <<>>)
    IN  [c EXCEPT !.report.ByCategory = CategoryPercentages(@),
                  !.report.Orphaned = orphaned,
                  !.report.OrphanedSpecs = Len(orphaned),
                  !.report.CoveragePercentage =
                      IF c.report.TotalEndpoints > 0
                      THEN Rat(c.report.CoveredEndpoints, c.report.TotalEndpoints)
                      ELSE @,
                  !.pc = "done"]

\* After the route loop: category percentages, orphans, the percentage; return.
finishReport(c) ==
    LET orphaned == OrphanLoop(c.specs, c.matchedSpecs, <<>>)
    IN  [c EXCEPT !.report.ByCategory = CategoryPercentages(@),
                  !.report.Orphaned = orphaned,
                  !.report.OrphanedSpecs = Len(orphaned),
                  !.report.CoveragePercentage =
                      IF c.report.TotalEndpoints > 0
                      THEN Rat(c.report.CoveredEndpoints * 100, c.report.TotalEndpoints)
                      ELSE @,
                  !.pc = "done"]

InitCoverage ==
    /\ VerifierIdle
    /\ batch = NoBatch
    /\ paths = NoPaths
    /\ \E in \in CoverageInputs : cov = CoverageCall(in)
    /\ ext = NoExtract

\* endpoints, err := ExtractEndpoints(ctx, sources, provider)
CovExtract ==
    /\ cov.pc = "extract"
    /\ cov' = IF cov.in.extractErr
              THEN [cov EXCEPT !.pc = "done", !.err = "failed to extract endpoints"]
              ELSE [cov EXCEPT !.endpoints = cov.in.endpoints,
                               !.report.TotalEndpoints = Len(cov.in.endpoints),
                               !.pc = "find"]
    /\ UNCHANGED <<verifierVars, batch, paths, ext>>

\* specFiles, err := FindSpecFiles(cfg.SpecsDir, "")
CovFind ==
    /\ cov.pc = "find"
    /\ LET f == FindSpecFiles(cov.in.dir, [n \in 1..Len(cov.in.specs) |-> "md"])
       IN  cov' = IF f.err # ""
                  THEN [cov EXCEPT !.pc = "done", !.err = f.err]
                  ELSE [cov EXCEPT !.specFiles = f.files,
                                   !.report.TotalSpecs = Len(f.files),
                                   !.pc = IF Len(f.files) = 0 THEN RoutesPhase(cov, 1)
                                          ELSE "parse"]
    /\ UNCHANGED <<verifierVars, batch, paths, ext>>

\* Mutant: a spec is indexed under its normalized path even when it declares
\* no RoutePath.
CovParseIndexAll ==
    /\ cov.pc = "parse"
    /\ LET file == cov.specFiles[cov.k]
           p == ParseSpec(file, cov.in.specs[file])
           after == IF cov.k = Len(cov.specFiles) THEN RoutesPhase(cov, 1) ELSE "parse"
       IN  cov' = IF p.err # ""
                  THEN [cov EXCEPT !.k = @ + 1, !.pc = after]
                  ELSE [cov EXCEPT
                           !.specs = Append(@, p.spec),
                           !.specPathMap =
                               MapSet(@, NormalizePath(p.spec.RoutePath), file),
                           !.k = @ + 1, !.pc = after]
    /\ UNCHANGED <<verifierVars, batch, paths, ext>>

\* One iteration of `for _, specFile := range specFiles`.
CovParse ==
    /\ cov.pc = "parse"
    /\ LET file == cov.specFiles[cov.k]
           p == ParseSpec(file, cov.in.specs[file])
           after == IF cov.k = Len(cov.specFiles) THEN RoutesPhase(cov, 1) ELSE "parse"
       IN  cov' = IF p.err # ""
                  THEN [cov EXCEPT !.k = @ + 1, !.pc = after]
                  ELSE [cov EXCEPT
                           !.specs = Append(@, p.spec),
                           !.specPathMap =
                               IF p.spec.RoutePath # <<>>
                               THEN MapSet(@, NormalizePath(p.spec.RoutePath), file)
                               ELSE @,
                           !.k = @ + 1, !.pc = after]
    /\ UNCHANGED <<verifierVars, batch, paths, ext>>

\* One iteration of `for _, ep := range endpoints`.
CovRoute ==
    /\ cov.pc = "routes"
    /\ \E spec \in RouteMatches(cov, cov.endpoints[cov.i]) :
           cov' = recordRoute(cov, spec)
    /\ UNCHANGED <<verifierVars, batch, paths, ext>>

CovFinish ==
    /\ cov.pc = "finish"
    /\ cov' = finishReport(cov)
    /\ UNCHANGED <<verifierVars, batch, paths, ext>>

NextCoverage ==
    \/ CovExtract
    \/ CovFind
    \/ CovParse
    \/ CovRoute
    \/ CovFinish

SpecCoverage == InitCoverage /\ [][NextCoverage]_vars

(***************************************************************************)
(* Properties of CalculateCoverage.                                        *)
(***************************************************************************)
\* CalculateCoverage has returned a report.
Reported == cov.pc = "done" /\ cov.err = ""

Routes == 1..Len(cov.endpoints)

ItemsFor(items, e) == {j \in 1..Len(items) : items[j].ep = e}

\* C17: in a returned report TotalEndpoints = CoveredEndpoints +
\* UncoveredEndpoints, the two lists have the lengths the counts give, and
\* every extracted route is in exactly one of them, once.
C17_RoutesPartitioned ==
    Reported =>
        /\ cov.report.TotalEndpoints = Len(cov.endpoints)
        /\ cov.report.TotalEndpoints =
               cov.report.CoveredEndpoints + cov.report.UncoveredEndpoints
        /\ Len(cov.report.Covered) = cov.report.CoveredEndpoints
        /\ Len(cov.report.Uncovered) = cov.report.UncoveredEndpoints
        /\ \A e \in Routes :
               Cardinality(ItemsFor(cov.report.Covered, e))
                   + Cardinality(ItemsFor(cov.report.Uncovered, e)) = 1

\* One route was covered by the scan and another was left uncovered.
C17_Witness ==
    /\ Reported
    /\ cov.report.CoveredEndpoints = 1
    /\ cov.report.UncoveredEndpoints = 1
    /\ NormalizePath(cov.report.Covered[1].Path) \notin DOMAIN cov.specPathMap

\* The spec files some covered route is annotated with.
PairedSpecs == {cov.report.Covered[j].SpecFile : j \in 1..Len(cov.report.Covered)}

\* C18 (as claimed): in a returned report TotalSpecs, the number of spec
\* files discovered, is the number of specs paired with a route plus
\* OrphanedSpecs.
C18_SpecsPartitioned ==
    Reported =>
        /\ cov.report.TotalSpecs = Len(cov.specFiles)
        /\ cov.report.TotalSpecs = Cardinality(PairedSpecs) + cov.report.OrphanedSpecs

OrphanedFiles == {cov.report.Orphaned[j].File : j \in 1..Len(cov.report.Orphaned)}

\* Some extracted route's normalized path matches the spec's normalized path.
SomeRouteMatches(spec) ==
    \E e \in Routes :
        pathsMatch(NormalizePath(cov.endpoints[e].Path), NormalizePath(spec.RoutePath))

ParsedSpecs == {cov.specs[n] : n \in 1..Len(cov.specs)}

\* C19 (as claimed): a spec is in Orphaned exactly when no extracted route
\* matches its declared RoutePath.
C19_OrphanedIffUnmatched ==
    Reported =>
        \A spec \in ParsedSpecs :
            spec.FilePath \in OrphanedFiles <=> ~SomeRouteMatches(spec)

\* C19 (amended): a parsed spec is in Orphaned exactly when no route was
\* paired with it.  A route is paired with one spec only, and only with one
\* whose path matches its own, so a spec that no route matches is always in
\* Orphaned; one that some route matches need not be paired.
C19_OrphanedIffUnpaired ==
    Reported =>
        /\ \A spec \in ParsedSpecs :
               /\ spec.FilePath \in OrphanedFiles <=> spec.FilePath \notin PairedSpecs
               /\ ~SomeRouteMatches(spec) => spec.FilePath \in OrphanedFiles
        /\ \A j \in 1..Len(cov.report.Covered) :
               \E spec \in ParsedSpecs :
                   /\ spec.FilePath = cov.report.Covered[j].SpecFile
                   /\ pathsMatch(NormalizePath(cov.report.Covered[j].Path),
                                 NormalizePath(spec.RoutePath))
        /\ OrphanedFiles \subseteq {spec.FilePath : spec \in ParsedSpecs}
        /\ Len(cov.report.Orphaned) = Cardinality(OrphanedFiles)

\* Two specs match the one route; the scan paired it with the second, and
\* the first is reported orphaned.
C19_Witness ==
    /\ Reported
    /\ Len(cov.endpoints) = 1
    /\ Len(cov.specs) = 2
    /\ cov.specs[1].RoutePath # cov.specs[2].RoutePath
    /\ \A spec \in ParsedSpecs : SomeRouteMatches(spec)
    /\ NormalizePath(cov.endpoints[1].Path) \notin DOMAIN cov.specPathMap
    /\ PairedSpecs = {2}
    /\ OrphanedFiles = {1}

\* C20: CoveragePercentage is CoveredEndpoints / TotalEndpoints * 100 when
\* there are routes and 0 when there are none; 6 covered routes of 10 give 60.
C20_CoveragePercentage ==
    Reported =>
        /\ cov.report.TotalEndpoints > 0 =>
               cov.report.CoveragePercentage.num * cov.report.TotalEndpoints
                   = cov.report.CoveredEndpoints * 100 * cov.report.CoveragePercentage.den
        /\ cov.report.TotalEndpoints = 0 => cov.report.CoveragePercentage = RatZero
        /\ cov.in = CoverageExample =>
               /\ cov.report.CoveredEndpoints = 6
               /\ cov.report.UncoveredEndpoints = 4
               /\ cov.report.CoveragePercentage = [num |-> 60, den |-> 1]

\* The report for the ten routes and six specs.
C20_Witness ==
    /\ Reported
    /\ cov.in = CoverageExample
    /\ cov.report.TotalEndpoints = 10
    /\ cov.report.CoveragePercentage = [num |-> 60, den |-> 1]


(***************************************************************************)
(* ExtractEndpoints and extractWithAI (internal/parser/endpoint.go), and   *)
(* CalculateCoverage receiving what ExtractEndpoints returned.             *)
(***************************************************************************)
MaxSources == 2
maxBatchBytes == 20000

\* splitIntoBatches run to its return.
RECURSIVE splitRun(_)
splitRun(b) == IF b.i > Len(b.files) THEN splitReturn(b) ELSE splitRun(splitIteration(b))

splitIntoBatches(files, maxBytes) == splitRun(BatchCall(files, maxBytes)).batches

\* The source types of the switch in ExtractEndpoints, and one it does not know.
AITypes == {"express", "fastify", "go-echo", "go-gin", "rails", "django", "graphql", "auto"}
SourceTypes == {"openapi", "express", "soap"}

\* The sizes of the files a source's patterns match and that can be read:
\* none, files that share a batch, and files that need two batches.
SourceFiles ==
    {<<>>, <<10000>>, <<10000, 10000>>, <<10000, 30000>>, <<10000, 10000, 10000>>}

\* provider.ExtractEndpoints on one batch: an error, or one route.
ExtractReplies == {"error", "route"}

\* A configured source with what the file system and the Judge hold for it.
SourceInputs ==
    [Type : {"soap"}, Category : {"", "ui"}, parse : {"ok"}, files : {<<>>},
     replies : {<<>>}]
        \cup [Type : {"openapi"}, Category : {"", "ui"}, parse : {"ok", "fail"},
              files : {<<>>}, replies : {<<>>}]
        \cup UNION {[Type : {"express"}, Category : {"", "ui"}, parse : {"ok"},
                     files : {fs},
                     replies : [1..Len(splitIntoBatches(fs, maxBatchBytes))
                                    -> ExtractReplies]] : fs \in SourceFiles}

OpenAPIPath == <<"/", "p">>
JudgedPath == <<"/", "u", "/", "1">>

\* The entry of ExtractEndpoints.
ExtractCall(sources) ==
    [pc |-> "sources", sources |-> sources, i |-> 1, batches |-> <<>>, b |-> 1,
     endpoints |-> <<>>, allEndpoints |-> <<>>, judgeCalls |-> <<>>,
     processed |-> <<>>, ret |-> [endpoints |-> <<>>, err |-> ""]]

\* The tail of one iteration over the sources: the category default is set on
\* the routes that have none, and they are appended to allEndpoints.
sourceDone(x, endpoints) ==
    LET source == x.sources[x.i]
        category == IF source.Category = "" THEN "api" ELSE source.Category
        withCategory == [n \in 1..Len(endpoints) |->
                            IF endpoints[n].Category = ""
                            THEN [endpoints[n] EXCEPT !.Category = category]
                            ELSE endpoints[n]]
    IN  [x EXCEPT !.allEndpoints = @ \o withCategory, !.endpoints = <<>>,
                  !.batches = <<>>, !.b = 1, !.i = @ + 1, !.pc = "sources"]

extractFailed(x, err) ==
    [x EXCEPT !.ret = [endpoints |-> <<>>, err |-> err], !.pc = "returned"]

\* Mutant: a source of unknown type is passed over.
extractSourceSkipUnknown(x) ==
    LET source == x.sources[x.i]
        entered == [x EXCEPT !.processed = Append(@, x.i)]
    IN  IF source.Type = "openapi"
        THEN IF source.parse = "fail"
             THEN extractFailed(entered, "failed to extract endpoints from openapi")
             ELSE sourceDone(entered, <<[Path |-> OpenAPIPath, Category |-> "",
                                         Source |-> "openapi", File |-> <<x.i, 0>>]>>)
        ELSE IF source.Type \in AITypes
        THEN IF source.files = <<>> THEN sourceDone(entered, <<>>)
             ELSE [entered EXCEPT
                      !.batches = splitIntoBatches(source.files, maxBatchBytes),
                      !.b = 1, !.endpoints = <<>>, !.pc = "batches"]
        ELSE sourceDone(entered, <<>>)

\* One iteration of `for _, source := range sources` up to the first Judge
\* call: the switch on source.Type, extractFromOpenAPI, and extractWithAI as
\* far as the batches.
extractSource(x) ==
    LET source == x.sources[x.i]
        entered == [x EXCEPT !.processed = Append(@, x.i)]
    IN  IF source.Type = "openapi"
        THEN IF source.parse = "fail"
             THEN extractFailed(entered, "failed to extract endpoints from openapi")
             ELSE sourceDone(entered, <<[Path |-> OpenAPIPath, Category |-> "",
                                         Source |-> "openapi", File |-> <<x.i, 0>>]>>)
        ELSE IF source.Type \in AITypes
        THEN IF source.files = <<>> THEN sourceDone(entered, <<>>)
             ELSE [entered EXCEPT
                      !.batches = splitIntoBatches(source.files, maxBatchBytes),
                      !.b = 1, !.endpoints = <<>>, !.pc = "batches"]
        ELSE extractFailed(entered, "unknown api source type")

\* Mutant: a failed batch is passed over and the next one is submitted.
extractBatchBestEffort(x) ==
    LET source == x.sources[x.i]
        called == [x EXCEPT !.judgeCalls = Append(@, <<x.i, x.b>>)]
        found == IF source.replies[x.b] = "error" THEN x.endpoints
                 ELSE Append(x.endpoints,
                             [Path |-> JudgedPath, Category |-> "",
                              Source |-> source.Type, File |-> <<x.i, x.b>>])
    IN  IF x.b = Len(x.batches) THEN sourceDone(called, found)
        ELSE [called EXCEPT !.endpoints = found, !.b = @ + 1]

\* One iteration of `for _, batch := range batches` in extractWithAI: the
\* Judge is called on batch b; its error ends extractWithAI and
\* ExtractEndpoints, its routes are collected.
extractBatch(x) ==
    LET source == x.sources[x.i]
        called == [x EXCEPT !.judgeCalls = Append(@, <<x.i, x.b>>)]
        found == Append(x.endpoints,
                        [Path |-> JudgedPath, Category |-> "",
                         Source |-> source.Type, File |-> <<x.i, x.b>>])
    IN  IF source.replies[x.b] = "error"
        THEN extractFailed(called, "failed to extract endpoints from source")
        ELSE IF x.b = Len(x.batches) THEN sourceDone(called, found)
        ELSE [called EXCEPT !.endpoints = found, !.b = @ + 1]

InitExtract ==
    /\ VerifierIdle
    /\ batch = NoBatch
    /\ paths = NoPaths
    /\ cov = NoCoverage
    /\ \E sources \in SeqsUpTo(SourceInputs, MaxSources) : ext = ExtractCall(sources)

ExtSource ==
    /\ ext.pc = "sources"
    /\ ext.i <= Len(ext.sources)
    /\ ext' = extractSource(ext)
    /\ UNCHANGED <<verifierVars, batch, paths, cov>>

ExtBatch ==
    /\ ext.pc = "batches"
    /\ ext' = extractBatch(ext)
    /\ UNCHANGED <<verifierVars, batch, paths, cov>>

\* return allEndpoints, nil
ExtReturn ==
    /\ ext.pc = "sources"
    /\ ext.i > Len(ext.sources)
    /\ ext' = [ext EXCEPT !.ret = [endpoints |-> ext.allEndpoints, err |-> ""],
                          !.pc = "returned"]
    /\ UNCHANGED <<verifierVars, batch, paths, cov>>

\* CalculateCoverage around its call of ExtractEndpoints: what the call
\* returned is what line 119 receives; one readable spec is on disk.
CovCall ==
    /\ ext.pc = "returned"
    /\ cov = NoCoverage
    /\ cov' = CoverageCall([extractErr |-> ext.ret.err # "",
                            endpoints |-> ext.ret.endpoints,
                            dir |-> "ok",
                            specs |-> <<[readable |-> TRUE, RoutePath |-> <<"/", "u", "/", ":", "i">>]>>])
    /\ UNCHANGED <<verifierVars, batch, paths, ext>>

NextExtract ==
    \/ ExtSource
    \/ ExtBatch
    \/ ExtReturn
    \/ CovCall
    \/ CovExtract
    \/ CovFind
    \/ CovParse
    \/ CovRoute
    \/ CovFinish

SpecExtract == InitExtract /\ [][NextExtract]_vars

(***************************************************************************)
(* Properties of ExtractEndpoints.                                         *)
(***************************************************************************)
ExtractReturned == ext.pc = "returned"

UnknownSources ==
    {n \in 1..Len(ext.sources) : ext.sources[n].Type \notin AITypes \cup {"openapi"}}

SourcesOf(calls) == {calls[n][1] : n \in 1..Len(calls)}

\* C21: when the source list holds a source of unknown type, ExtractEndpoints
\* returns an error and no routes; when that source is reached no source
\* after it is entered or submitted to the Judge; and CalculateCoverage
\* returns the error and no report.
C21_UnknownSourceAborts ==
    /\ (ExtractReturned /\ UnknownSources # {}) =>
           /\ ext.ret.err # ""
           /\ ext.ret.endpoints = <<>>
           /\ cov.pc = "done" => (cov.err # "" /\ cov.report = NoReport)
    /\ \A u \in UnknownSources :
           (\E n \in 1..Len(ext.processed) : ext.processed[n] = u) =>
               /\ ExtractReturned
               /\ ext.ret.err = "unknown api source type"
               /\ \A n \in 1..Len(ext.processed) : ext.processed[n] <= u
               /\ \A n \in SourcesOf(ext.judgeCalls) : n < u
    /\ (UnknownSources # {} /\ cov # NoCoverage) => cov.pc \in {"extract", "done"}

\* The first source gave a route, the second is of unknown type, and
\* CalculateCoverage has returned.
C21_Witness ==
    /\ ExtractReturned
    /\ Len(ext.sources) = 2
    /\ UnknownSources = {2}
    /\ ext.allEndpoints # <<>>
    /\ ext.ret.endpoints = <<>>
    /\ ext.ret.err = "unknown api source type"
    /\ cov.pc = "done"

\* The Judge calls made so far that failed.
FailedCalls ==
    {n \in 1..Len(ext.judgeCalls) :
        ext.sources[ext.judgeCalls[n][1]].replies[ext.judgeCalls[n][2]] = "error"}

\* C25: a Judge failure on a batch is the last Judge call of the extraction:
\* no later batch and no later source is entered, and ExtractEndpoints
\* returns the error and none of the routes found before it.
C25_JudgeFailureStopsExtraction ==
    \A n \in FailedCalls :
        /\ n = Len(ext.judgeCalls)
        /\ ExtractReturned
        /\ ext.ret.err # ""
        /\ ext.ret.endpoints = <<>>
        /\ \A m \in 1..Len(ext.processed) : ext.processed[m] <= ext.judgeCalls[n][1]

\* The first source gave a route; the first batch of the second source gave
\* one too and its second batch failed.
C25_Witness ==
    /\ ExtractReturned
    /\ Len(ext.sources) = 2
    /\ ext.allEndpoints # <<>>
    /\ ext.judgeCalls # <<>>
    /\ ext.judgeCalls[Len(ext.judgeCalls)] = <<2, 2>>
    /\ FailedCalls = {Len(ext.judgeCalls)}
    /\ ext.endpoints # <<>>
    /\ ext.ret.endpoints = <<>>

(***************************************************************************)
(* Further properties of CalculateCoverage.                                *)
(***************************************************************************)
CoveredRoutes == {cov.report.Covered[j].ep : j \in 1..Len(cov.report.Covered)}

\* The indexed spec paths that match the route's normalized path.
IndexMatches(e) ==
    {specPath \in DOMAIN cov.specPathMap :
        pathsMatch(NormalizePath(cov.endpoints[e].Path), specPath)}

\* C22: in a returned report a route is covered exactly when some indexed
\* spec path matches its normalized path, whichever entry the scan met first.
C22_CoveredIffIndexMatch ==
    Reported => \A e \in Routes : e \in CoveredRoutes <=> IndexMatches(e) # {}

\* A route that is no key of the index and that two indexed paths match.
C22_Witness ==
    /\ Reported
    /\ Len(cov.endpoints) = 1
    /\ NormalizePath(cov.endpoints[1].Path) \notin DOMAIN cov.specPathMap
    /\ Cardinality(IndexMatches(1)) = 2
    /\ CoveredRoutes = {1}

\* The parsed specs with a RoutePath whose normalized form is specPath.
SpecsAt(specPath) ==
    {spec \in ParsedSpecs :
        spec.RoutePath # <<>> /\ NormalizePath(spec.RoutePath) = specPath}

LastOf(specs) == CHOOSE spec \in specs : \A other \in specs : other.FilePath <= spec.FilePath

\* C23: the index holds, for each normalized path, the last-parsed spec that
\* declares it; a route with exactly that normalized path is annotated with
\* that spec; the earlier specs with the path are never paired and, being
\* parsed specs, are reported as orphaned.
C23_LastSpecWins ==
    /\ \A specPath \in DOMAIN cov.specPathMap :
           /\ SpecsAt(specPath) # {}
           /\ cov.specPathMap[specPath] = LastOf(SpecsAt(specPath)).FilePath
    /\ Reported =>
           /\ \A j \in 1..Len(cov.report.Covered) :
                  LET normalizedPath == NormalizePath(cov.report.Covered[j].Path)
                  IN  normalizedPath \in DOMAIN cov.specPathMap =>
                          cov.report.Covered[j].SpecFile
                              = LastOf(SpecsAt(normalizedPath)).FilePath
           /\ \A specPath \in DOMAIN cov.specPathMap :
                  \A spec \in SpecsAt(specPath) :
                      spec # LastOf(SpecsAt(specPath)) =>
                          /\ spec.FilePath \notin PairedSpecs
                          /\ spec.FilePath \in OrphanedFiles

\* Two specs declare the same path in different notations; the route with
\* that path is annotated with the second and the first is orphaned.
C23_Witness ==
    /\ Reported
    /\ Len(cov.specs) = 2
    /\ cov.specs[1].RoutePath # cov.specs[2].RoutePath
    /\ NormalizePath(cov.specs[1].RoutePath) = NormalizePath(cov.specs[2].RoutePath)
    /\ Len(cov.report.Covered) = 1
    /\ NormalizePath(cov.report.Covered[1].Path) = NormalizePath(cov.specs[2].RoutePath)
    /\ cov.report.Covered[1].SpecFile = 2
    /\ OrphanedFiles = {1}

CategoryItems(cat) ==
    cov.report.ByCategory[cat].CoveredItems \o cov.report.ByCategory[cat].UncoveredItems

\* The category a route was extracted under: that of its source, "api" when
\* the source has none.
SourceCategory(e) ==
    LET source == ext.sources[cov.endpoints[e].File[1]]
    IN  IF source.Category = "" THEN "api" ELSE source.Category

\* C24: in a returned report every category has Total = Covered + Uncovered,
\* every route is counted once, in its own category ("api" when it was given
\* none), and the Covered and Uncovered counts of the categories add up to
\* CoveredEndpoints and UncoveredEndpoints.
C24_CategoryTotals ==
    Reported =>
        LET cats == DOMAIN cov.report.ByCategory
            by(cat) == cov.report.ByCategory[cat]
        IN  /\ \A cat \in cats :
                   /\ by(cat).Total = by(cat).Covered + by(cat).Uncovered
                   /\ Len(by(cat).CoveredItems) = by(cat).Covered
                   /\ Len(by(cat).UncoveredItems) = by(cat).Uncovered
            /\ \A e \in Routes :
                   /\ SourceCategory(e) \in cats
                   /\ \A cat \in cats :
                          Cardinality(ItemsFor(CategoryItems(cat), e))
                              = IF cat = SourceCategory(e) THEN 1 ELSE 0
            /\ SumOver([cat \in cats |-> by(cat).Covered], cats)
                   = cov.report.CoveredEndpoints
            /\ SumOver([cat \in cats |-> by(cat).Uncovered], cats)
                   = cov.report.UncoveredEndpoints

\* A source without a category gave an uncovered route, a "ui" source a
\* covered one.
C24_Witness ==
    /\ Reported
    /\ DOMAIN cov.report.ByCategory = {"api", "ui"}
    /\ cov.report.ByCategory["api"].Uncovered = 1
    /\ cov.report.ByCategory["ui"].Covered >= 1
    /\ \E e \in Routes : ext.sources[cov.endpoints[e].File[1]].Category = ""


(***************************************************************************)
(* VerifyAll under the Go scheduler: a goroutine that can take a step is   *)
(* eventually run, and a provider.Verify call that was made returns.  The  *)
(* caller's cancellation of ctx is the only step nothing forces.           *)
(***************************************************************************)
Scheduled ==
    \/ Find
    \/ Spawn
    \/ StartCollect
    \/ \E w \in Workers : Acquire(w)
    \/ \E w \in Workers : VerifyLocal(w)
    \/ \E w \in Workers : JudgeReturn(w)
    \/ \E w \in Workers : Send(w)
    \/ \E w \in Workers : Exit(w)
    \/ CloseChan
    \/ Collect
    \/ Return

SpecFair == Init /\ [][Next]_vars /\ WF_vars(Scheduled)

\* C26: if every Judge call returns, VerifyAll eventually returns, for every
\* number of spec files and every concurrency limit 0, 1, 2, ...; no worker
\* stays blocked on the admission gate or on the result channel.
C26_VerifyAllReturns == <>Returned


\* C27: when VerifyAll returns a Summary, Results holds exactly one Result for
\* every discovered spec file, TotalSpecs is the number of discovered spec
\* files, and every worker has delivered its Result and finished by then.
C27_OneResultPerSpec ==
    (Returned /\ HasSummary) =>
        LET s == ret.summary[1]
        IN  /\ Len(s.Results) = Len(specFiles)
            /\ s.TotalSpecs = Len(specFiles)
            /\ \A w \in Workers :
                 /\ Cardinality({i \in 1..Len(s.Results) :
                                   s.Results[i].SpecFile = specFiles[w]}) = 1
                 /\ \A i \in 1..Len(s.Results) :
                      s.Results[i].SpecFile = specFiles[w] => s.Results[i] = result[w]
                 /\ pc[w] = "done"
            /\ resultChan = <<>>
            /\ wg = 0

\* Two spec files returned in a Summary whose Results are in the reverse of
\* the submission order.
C27_Witness ==
    /\ Returned
    /\ HasSummary
    /\ Len(specFiles) = 2
    /\ ret.summary[1].Results[1].SpecFile = specFiles[2]
    /\ ret.summary[1].Results[2].SpecFile = specFiles[1]

\* The readable specs for which FindCodeFiles resolves no code file, and the
\* positions of the Results of a Summary that carry a verdict of the Judge.
NoCodeSpecs == {w \in Workers : env[w].readable /\ env[w].codeFiles = 0}
JudgedIn(s) == {i \in VerifiedIn(s) : s.Results[i].CodeFiles > 0}

\* C30: a spec for which no code file resolves counts as verified in the
\* Summary: it is counted in VerifiedSpecs and in LowMatchCount and enters
\* AverageMatch with the value 0.
C30_NoCodeCountsAsVerified ==
    (Returned /\ HasSummary) =>
        LET s == ret.summary[1]
            k == Cardinality(NoCodeSpecs)
            J == JudgedIn(s)
            n == k + Cardinality(J)
        IN  /\ \A w \in NoCodeSpecs :
                 \E i \in VerifiedIn(s) :
                    /\ s.Results[i].SpecFile = specFiles[w]
                    /\ s.Results[i].CodeFiles = 0
                    /\ s.Results[i].Error = ""
                    /\ MatchIn(s)[i] = 0
            /\ s.VerifiedSpecs = n
            /\ s.LowMatchCount = k + Cardinality({i \in J : MatchIn(s)[i] < 50})
            /\ s.HighMatchCount = Cardinality({i \in J : MatchIn(s)[i] >= 80})
            /\ s.AverageMatch = IF n = 0 THEN RatZero
                                ELSE Rat(SumOver(MatchIn(s), J), n)

\* A Summary over one spec without code and one spec judged at 80: both are
\* verified, one is low, and the average is 40.
C30_Witness ==
    /\ Returned
    /\ HasSummary
    /\ Cardinality(NoCodeSpecs) = 1
    /\ ret.summary[1].TotalSpecs = 2
    /\ ret.summary[1].VerifiedSpecs = 2
    /\ ret.summary[1].LowMatchCount = 1
    /\ ret.summary[1].AverageMatch = [num |-> 40, den |-> 1]


\* A batch that holds no file larger than the ceiling.
WithinCeiling(bt) == \A k \in 1..Len(bt) : batch.files[bt[k]] <= batch.maxBytes

\* C28: splitIntoBatches starts a new batch only when it must: for two
\* consecutive returned batches that both hold only files no larger than the
\* ceiling, the size of the earlier batch plus the size of the first file of
\* the later batch exceeds the ceiling.
C28_NewBatchOnlyWhenNeeded ==
    BatchDone =>
        \A j \in 1..(Len(batch.batches) - 1) :
            LET earlier == batch.batches[j]
                later == batch.batches[j + 1]
            IN  (WithinCeiling(earlier) /\ WithinCeiling(later)) =>
                    BatchSize(batch.files, earlier) + batch.files[later[1]]
                        > batch.maxBytes

\* A batch of two files that fills the ceiling exactly is
\* followed by a batch that starts with a file of one byte.
C28_Witness ==
    /\ BatchDone
    /\ Len(batch.batches) = 2
    /\ Len(batch.batches[1]) = 2
    /\ WithinCeiling(batch.batches[1])
    /\ WithinCeiling(batch.batches[2])
    /\ BatchSize(batch.files, batch.batches[1]) = batch.maxBytes
    /\ batch.files[batch.batches[2][1]] = 1


\* The parsed specs that declare no RoutePath.
EmptyPathSpecs == {spec \in ParsedSpecs : spec.RoutePath = <<>>}

\* C29: in CalculateCoverage a parsed spec with an empty RoutePath is never
\* in the index, is never paired with a route, not even with a route whose
\* path is empty, and is in Orphaned of the returned report.
C29_EmptyPathSpecOrphaned ==
    cov # NoCoverage =>
        \A spec \in EmptyPathSpecs :
            /\ \A specPath \in DOMAIN cov.specPathMap :
                   cov.specPathMap[specPath] # spec.FilePath
            /\ spec.FilePath \notin cov.matchedSpecs
            /\ spec.FilePath \notin PairedSpecs
            /\ Reported =>
                 /\ spec.FilePath \in OrphanedFiles
                 /\ \A j \in 1..Len(cov.report.Orphaned) :
                        cov.report.Orphaned[j].File = spec.FilePath
                            => cov.report.Orphaned[j].RoutePath = <<>>

\* A report over a route with an empty path and a spec with an empty
\* RoutePath: the route is uncovered and the spec is orphaned.
C29_Witness ==
    /\ Reported
    /\ Len(cov.endpoints) = 1
    /\ cov.endpoints[1].Path = <<>>
    /\ Len(cov.specs) = 1
    /\ EmptyPathSpecs # {}
    /\ cov.report.UncoveredEndpoints = 1
    /\ cov.report.OrphanedSpecs = 1

====
